---------------------------- MODULE Spec2Model ----------------------------
(***************************************************************************)
(* Model of the mkwaffle game core: the seeded scramble of the daily       *)
(* puzzle (generateInitialState, generateDerangement, seededShuffle,       *)
(* mulberry32), the feedback colouring (updateColors, checkWin) and the    *)
(* session state machine of App.tsx (initGame, performSwap).               *)
(*                                                                         *)
(* Letters are written in Latin transliteration of the Cyrillic letters of *)
(* the source.  Row and column indices are those of the source (0..4);     *)
(* arrays that the source indexes from 0 and the model keeps as sequences  *)
(* are indexed from 1.                                                     *)
(***************************************************************************)
EXTENDS Integers, Sequences, FiniteSets, TLC

---------------------------------------------------------------------------
(* 32-bit unsigned arithmetic.  A word is kept as two 16-bit halves        *)
(* [h, l] so that no intermediate value leaves the range of the checker's  *)
(* integers; every operation is taken modulo 2^32 as ToInt32/Math.imul do. *)

W16 == 65536

\* Bitwise operations: tables for 4-bit operands, applied to the four
\* nibbles of a 16-bit value
Bit(a, i) == (a \div (2 ^ i)) % 2

XorNibble ==
  [a \in 0 .. 15 |-> [b \in 0 .. 15 |->
     ((Bit(a, 0) + Bit(b, 0)) % 2) + 2 * ((Bit(a, 1) + Bit(b, 1)) % 2)
     + 4 * ((Bit(a, 2) + Bit(b, 2)) % 2) + 8 * ((Bit(a, 3) + Bit(b, 3)) % 2)]]

\* a | b = (a ^ b) + (a & b), and a + b = (a ^ b) + 2 * (a & b)
OrNibble ==
  [a \in 0 .. 15 |-> [b \in 0 .. 15 |->
     XorNibble[a][b] + ((a + b - XorNibble[a][b]) \div 2)]]

Nibbles(T, a, b) ==
  T[a % 16][b % 16]
  + 16 * T[(a \div 16) % 16][(b \div 16) % 16]
  + 256 * T[(a \div 256) % 16][(b \div 256) % 16]
  + 4096 * T[a \div 4096][b \div 4096]

XorBits(a, b) == Nibbles(XorNibble, a, b)
OrBits(a, b) == Nibbles(OrNibble, a, b)

U32(n) == [h |-> (n \div W16) % W16, l |-> n % W16]

Xor32(x, y) == [h |-> XorBits(x.h, y.h), l |-> XorBits(x.l, y.l)]

\* x | k for a constant k below 2^16
OrLow(x, k) == [h |-> x.h, l |-> OrBits(x.l, k)]

\* x >>> n for 0 < n < 16
Shr32(x, n) ==
  LET P == 2 ^ n
  IN  [h |-> x.h \div P, l |-> (x.l \div P) + (x.h % P) * (W16 \div P)]

Add32(x, y) ==
  LET s == x.l + y.l
  IN  [h |-> (x.h + y.h + (s \div W16)) % W16, l |-> s % W16]

\* Math.imul: the low 32 bits of the product, computed on bytes
Imul32(x, y) ==
  LET x0 == x.l % 256  x1 == x.l \div 256  x2 == x.h % 256  x3 == x.h \div 256
      y0 == y.l % 256  y1 == y.l \div 256  y2 == y.h % 256  y3 == y.h \div 256
      c0 == x0 * y0
      c1 == x0 * y1 + x1 * y0 + (c0 \div 256)
      c2 == x0 * y2 + x1 * y1 + x2 * y0 + (c1 \div 256)
      c3 == x0 * y3 + x1 * y2 + x2 * y1 + x3 * y0 + (c2 \div 256)
  IN  [h |-> (c3 % 256) * 256 + (c2 % 256), l |-> (c1 % 256) * 256 + (c0 % 256)]

\* 0x6D2B79F5, the increment of the generator
INCREMENT == [h |-> 27947, l |-> 31221]

\* The generator state after n calls: a = seed + n * 0x6D2B79F5 (mod 2^32)
StateAfter(seed, n) ==
  LET lo == (seed % W16) + n * INCREMENT.l
  IN  [h |-> ((seed \div W16) + n * INCREMENT.h + (lo \div W16)) % W16,
       l |-> lo % W16]

\* The mixing of one call: the 32-bit numerator of the returned fraction.
\* The set bindings make each assignment to t a value before the next
\* statement reads it.
MixFirst(a) ==
  CHOOSE t \in {Imul32(x, OrLow(a, 1)) : x \in {Xor32(a, Shr32(a, 15))}} : TRUE

MixSecond(t) ==
  CHOOSE u \in
    {Xor32(t, s) :
       s \in {Add32(t, m) :
                m \in {Imul32(x, OrLow(t, 61)) :
                         x \in {Xor32(t, Shr32(t, 7))}}}} : TRUE

MixLast(t) == Xor32(t, Shr32(t, 14))

Mix(a) ==
  CHOOSE u \in {MixLast(t2) :
                  t2 \in {MixSecond(t1) :
                            t1 \in {MixFirst(a0) : a0 \in {a}}}} : TRUE

\* mulberry32(seed): the n-th value returned (n = 1 is the first call), as
\* the numerator u of u / 4294967296
mulberry32(seed, n) == Mix(StateAfter(seed, n))

\* Math.floor(rng() * k) for a value u / 2^32 and an integer 0 < k < 2^15
FloorTimes(u, k) == (u.h * k + ((u.l * k) \div W16)) \div W16

---------------------------------------------------------------------------
(* seededShuffle: Fisher-Yates from the last index down, one draw a step.  *)

SwapAt(s, i, j) == [s EXCEPT ![i] = s[j], ![j] = s[i]]

\* i is the source's loop index (0-based); the draw for index i is call
\* number Len(s) - i of the generator.
\* j of every iteration: draws[i] is Math.floor(rng() * (i + 1)) for the loop
\* index i, all computed before the loop is run
ShuffleDraws(n, seed) ==
  SubSeq([i \in 1 .. (n - 1) |-> FloorTimes(mulberry32(seed, n - i), i + 1)],
         1, n - 1)

ShuffleStep(s, draws, i) == SwapAt(s, i + 1, draws[i] + 1)

\* The iterations i = hi, hi - 1, .., lo of the loop; the upper half of the
\* iterations is computed before the lower half
RECURSIVE ShuffleSteps(_, _, _, _)
ShuffleSteps(s, draws, hi, lo) ==
  IF hi < lo THEN s
  ELSE IF hi = lo THEN ShuffleStep(s, draws, hi)
  ELSE LET mid == (hi + lo + 1) \div 2
       IN  CHOOSE done \in {ShuffleSteps(upper, draws, mid - 1, lo) :
                              upper \in {ShuffleSteps(s, draws, hi, mid)}} : TRUE

ShuffleFrom(s, seed, i) ==
  CHOOSE shuffled \in {ShuffleSteps(s, draws, i, 1) :
                         draws \in {ShuffleDraws(Len(s), seed)}} : TRUE

seededShuffle(array, seed) == ShuffleFrom(array, seed, Len(array) - 1)

---------------------------------------------------------------------------
(* The grid.                                                               *)

GRID_SIZE == 5
TOTAL_SWAPS == 15

Idx == 0 .. (GRID_SIZE - 1)

CORRECT == "CORRECT"
PRESENT == "PRESENT"
WRONG == "WRONG"
NONE == "NONE"

isValidCell(r, c) == (r % 2 = 0) \/ (c % 2 = 0)

Coord(r, c) == [row |-> r, col |-> c]

\* All 25 coordinates in row-major order, and the 21 valid ones in the
\* order the nested loops push them.
AllCoords ==
  [k \in 1 .. (GRID_SIZE * GRID_SIZE) |->
     Coord((k - 1) \div GRID_SIZE, (k - 1) % GRID_SIZE)]

VALID_COORDS == SelectSeq(AllCoords, LAMBDA p : isValidCell(p.row, p.col))

ValidSet == {VALID_COORDS[k] : k \in 1 .. Len(VALID_COORDS)}
GapSet == {AllCoords[k] : k \in 1 .. Len(AllCoords)} \ ValidSet

\* A 5x5 matrix from its five rows
Matrix(rows) == [r \in Idx |-> [c \in Idx |-> rows[r + 1][c + 1]]]

FALLBACK_SOLUTION ==
  Matrix(<< <<"P", "L", "A", "Zh", "A">>,
            <<"E", " ", "N", " ",  "K">>,
            <<"V", "E", "T", "E",  "R">>,
            <<"A", " ", "I", " ",  "E">>,
            <<"Ch", "E", "K", "O", "R">> >>)

---------------------------------------------------------------------------
(* generateDerangement.                                                    *)

MAX_ATTEMPTS_DERANGE == 100

IsDerangement(shuffled, originalPositions) ==
  \A i \in 1 .. Len(shuffled) : shuffled[i] # originalPositions[i]

\* The first index of S, or 0 when the inner loop finds none
FirstOf(S) == IF S = {} THEN 0 ELSE CHOOSE j \in S : \A k \in S : j <= k

\* One iteration of the repair loop at (1-based) index i
RepairAt(result, originalPositions, i) ==
  IF result[i] # originalPositions[i] THEN result
  ELSE
    LET n == Len(result)
        safe == FirstOf({j \in (i + 1) .. n :
                           /\ result[j] # originalPositions[j]
                           /\ result[i] # originalPositions[j]
                           /\ result[j] # originalPositions[i]})
        any == FirstOf({j \in (i + 1) .. n : result[j] # originalPositions[i]})
    IN  IF safe # 0 THEN SwapAt(result, i, safe)
        ELSE IF any # 0 THEN SwapAt(result, i, any)
        ELSE result

\* The iterations i = lo, .., hi of the repair loop; the lower half of the
\* iterations is computed before the upper half
RECURSIVE RepairSteps(_, _, _, _)
RepairSteps(result, originalPositions, lo, hi) ==
  IF hi < lo THEN result
  ELSE IF hi = lo THEN RepairAt(result, originalPositions, lo)
  ELSE LET mid == (hi + lo) \div 2
       IN  CHOOSE done \in {RepairSteps(lower, originalPositions, mid + 1, hi) :
                              lower \in {RepairSteps(result, originalPositions,
                                                     lo, mid)}} : TRUE

RepairFrom(result, originalPositions, i) ==
  RepairSteps(result, originalPositions, i, Len(result))

\* The forced derangement of the fallback path
RepairPass(letters, originalPositions, seed) ==
  RepairFrom(seededShuffle(letters, seed + 999), originalPositions, 1)

\* The rejection-sampling loop: the first attempt below maxAttempts whose
\* shuffle is a derangement, or maxAttempts when every attempt fails
AttemptSucceeds(letters, originalPositions, seed, attempt) ==
  IsDerangement(seededShuffle(letters, seed + attempt + 100), originalPositions)

FirstSuccess(letters, originalPositions, seed, maxAttempts) ==
  IF \E a \in 0 .. (maxAttempts - 1) :
       AttemptSucceeds(letters, originalPositions, seed, a)
  THEN CHOOSE a \in 0 .. (maxAttempts - 1) :
         /\ AttemptSucceeds(letters, originalPositions, seed, a)
         /\ \A b \in 0 .. (a - 1) :
              ~AttemptSucceeds(letters, originalPositions, seed, b)
  ELSE maxAttempts

RejectionSample(letters, originalPositions, seed, maxAttempts) ==
  LET attempt == FirstSuccess(letters, originalPositions, seed, maxAttempts)
  IN  IF attempt = maxAttempts
      THEN RepairPass(letters, originalPositions, seed)
      ELSE seededShuffle(letters, seed + attempt + 100)

generateDerangement(letters, originalPositions, seed) ==
  IF Len(letters) = 1 THEN letters
  ELSE RejectionSample(letters, originalPositions, seed, MAX_ATTEMPTS_DERANGE)

---------------------------------------------------------------------------
(* updateColors and checkWin.                                              *)

\* Map.get(key) || 0 and Map.set(key, value)
MapGet(m, key) == IF key \in DOMAIN m THEN m[key] ELSE 0
MapSet(m, key, value) == (key :> value) @@ m

EmptyMap == << >>

\* A first pass that never looks again at a cell that is already CORRECT
MarkCorrectKeepGreen(currentGrid, solution) ==
  [r \in Idx |-> [c \in Idx |->
     IF isValidCell(r, c) /\ currentGrid[r][c].status # CORRECT
     THEN [char |-> currentGrid[r][c].char,
           status |-> IF currentGrid[r][c].char = solution[r][c]
                      THEN CORRECT ELSE WRONG]
     ELSE currentGrid[r][c]]]

\* First pass: CORRECT on an exact match, WRONG otherwise; gap cells are
\* copied as they are.
\* A first pass that runs over all 25 cells
MarkCorrectAllCells(currentGrid, solution) ==
  [r \in Idx |-> [c \in Idx |->
     [char |-> currentGrid[r][c].char,
      status |-> IF currentGrid[r][c].char = solution[r][c]
                 THEN CORRECT ELSE WRONG]]]

MarkCorrect(currentGrid, solution) ==
  [r \in Idx |-> [c \in Idx |->
     IF isValidCell(r, c)
     THEN [char |-> currentGrid[r][c].char,
           status |-> IF currentGrid[r][c].char = solution[r][c]
                      THEN CORRECT ELSE WRONG]
     ELSE currentGrid[r][c]]]

\* The function f on 0 .. k, written out entry by entry
RECURSIVE Tabulate(_, _)
Tabulate(f, k) ==
  IF k = 0 THEN (0 :> f[0]) ELSE Tabulate(f, k - 1) @@ (k :> f[k])

\* The grid as the array of arrays the source returns: every cell computed
GridValue(g) ==
  CHOOSE array \in
    {Tabulate([r \in Idx |-> Tabulate(v[r], GRID_SIZE - 1)], GRID_SIZE - 1) :
       v \in {g}} : TRUE

\* A map that counts every position of the line, in place or not
RECURSIVE LineRemainingAll(_, _, _, _)
LineRemainingAll(newGrid, solution, cells, k) ==
  IF k = 0 THEN EmptyMap
  ELSE LET m == LineRemainingAll(newGrid, solution, cells, k - 1)
           p == cells[k]
           solutionChar == solution[p.row][p.col]
       IN  MapSet(m, solutionChar, MapGet(m, solutionChar) + 1)

\* The remaining-need map of a line: cells is the sequence of the five
\* coordinates of the word, k the number of cells already counted.
RECURSIVE LineRemaining(_, _, _, _)
LineRemaining(newGrid, solution, cells, k) ==
  IF k = 0 THEN EmptyMap
  ELSE LET m == LineRemaining(newGrid, solution, cells, k - 1)
           p == cells[k]
           solutionChar == solution[p.row][p.col]
       IN  IF newGrid[p.row][p.col].char # solutionChar
           THEN MapSet(m, solutionChar, MapGet(m, solutionChar) + 1)
           ELSE m

RowCells(r) == [k \in 1 .. GRID_SIZE |-> Coord(r, k - 1)]
ColCells(c) == [k \in 1 .. GRID_SIZE |-> Coord(k - 1, c)]

rowRemainingInit(newGrid, solution) ==
  Tabulate([rowIdx \in 0 .. 2 |->
              LineRemaining(newGrid, solution, RowCells(rowIdx * 2), GRID_SIZE)], 2)

colRemainingInit(newGrid, solution) ==
  Tabulate([colIdx \in 0 .. 2 |->
              LineRemaining(newGrid, solution, ColCells(colIdx * 2), GRID_SIZE)], 2)

\* A second pass that marks a needed letter without claiming the slot
MarkPresentAtNoClaim(st, p) ==
  IF st.grid[p.row][p.col].status = CORRECT THEN st
  ELSE
    LET char == st.grid[p.row][p.col].char
        rowIdx == p.row \div 2
        colIdx == p.col \div 2
        rowHit == (p.row % 2 = 0) /\ MapGet(st.rowRemaining[rowIdx], char) > 0
        colHit == (p.col % 2 = 0) /\ MapGet(st.colRemaining[colIdx], char) > 0
        isYellow == rowHit \/ colHit
    IN  [grid |->
           IF isYellow
           THEN [st.grid EXCEPT ![p.row][p.col].status = PRESENT]
           ELSE st.grid,
         rowRemaining |->
           IF rowHit
           THEN [st.rowRemaining EXCEPT ![rowIdx] =
                   MapSet(@, char, MapGet(@, char) - 0)]
           ELSE st.rowRemaining,
         colRemaining |->
           IF colHit
           THEN [st.colRemaining EXCEPT ![colIdx] =
                   MapSet(@, char, MapGet(@, char) - 0)]
           ELSE st.colRemaining]

\* A second pass that checks the column only for cells outside a row word
MarkPresentAtRowOnly(st, p) ==
  IF st.grid[p.row][p.col].status = CORRECT THEN st
  ELSE
    LET char == st.grid[p.row][p.col].char
        rowIdx == p.row \div 2
        colIdx == p.col \div 2
        rowHit == (p.row % 2 = 0) /\ MapGet(st.rowRemaining[rowIdx], char) > 0
        colHit == (p.row % 2 # 0) /\ (p.col % 2 = 0)
                  /\ MapGet(st.colRemaining[colIdx], char) > 0
        isYellow == rowHit \/ colHit
    IN  [grid |->
           IF isYellow
           THEN [st.grid EXCEPT ![p.row][p.col].status = PRESENT]
           ELSE st.grid,
         rowRemaining |->
           IF rowHit
           THEN [st.rowRemaining EXCEPT ![rowIdx] =
                   MapSet(@, char, MapGet(@, char) - 1)]
           ELSE st.rowRemaining,
         colRemaining |->
           IF colHit
           THEN [st.colRemaining EXCEPT ![colIdx] =
                   MapSet(@, char, MapGet(@, char) - 1)]
           ELSE st.colRemaining]

\* One iteration of the second pass at the valid cell p.  st is the record
\* [grid, rowRemaining, colRemaining] the loop carries.
MarkPresentAt(st, p) ==
  IF st.grid[p.row][p.col].status = CORRECT THEN st
  ELSE
    LET char == st.grid[p.row][p.col].char
        rowIdx == p.row \div 2
        colIdx == p.col \div 2
        rowHit == (p.row % 2 = 0) /\ MapGet(st.rowRemaining[rowIdx], char) > 0
        colHit == (p.col % 2 = 0) /\ MapGet(st.colRemaining[colIdx], char) > 0
        isYellow == rowHit \/ colHit
    IN  [grid |->
           IF isYellow
           THEN [st.grid EXCEPT ![p.row][p.col].status = PRESENT]
           ELSE st.grid,
         rowRemaining |->
           IF rowHit
           THEN [st.rowRemaining EXCEPT ![rowIdx] =
                   MapSet(@, char, MapGet(@, char) - 1)]
           ELSE st.rowRemaining,
         colRemaining |->
           IF colHit
           THEN [st.colRemaining EXCEPT ![colIdx] =
                   MapSet(@, char, MapGet(@, char) - 1)]
           ELSE st.colRemaining]

\* The iterations of the second pass at the valid cells number lo .. hi;
\* the lower half of the iterations is computed before the upper half
RECURSIVE MarkPresentSteps(_, _, _)
MarkPresentSteps(st, lo, hi) ==
  IF hi < lo THEN st
  ELSE IF hi = lo THEN MarkPresentAt(st, VALID_COORDS[lo])
  ELSE LET mid == (hi + lo) \div 2
       IN  CHOOSE done \in {MarkPresentSteps(lower, mid + 1, hi) :
                              lower \in {MarkPresentSteps(st, lo, mid)}} : TRUE

MarkPresentFrom(st, k) ==
  CHOOSE done \in {MarkPresentSteps(v, k, Len(VALID_COORDS)) : v \in {st}} : TRUE

\* A recolouring whose second pass skips the cells that were CORRECT in the
\* grid passed in (currentGrid tested where newGrid is meant)
updateColorsSkipStale(currentGrid, solution) ==
  LET newGrid == MarkCorrect(currentGrid, solution)
      skipped == {p \in ValidSet : currentGrid[p.row][p.col].status = CORRECT}
      masked == [r \in Idx |-> [c \in Idx |->
                   IF Coord(r, c) \in skipped
                   THEN [char |-> newGrid[r][c].char, status |-> CORRECT]
                   ELSE newGrid[r][c]]]
      passed == MarkPresentFrom([grid |-> masked,
                                 rowRemaining |-> rowRemainingInit(newGrid, solution),
                                 colRemaining |-> colRemainingInit(newGrid, solution)],
                                1).grid
  IN  [r \in Idx |-> [c \in Idx |->
         IF Coord(r, c) \in skipped THEN newGrid[r][c] ELSE passed[r][c]]]

\* The two passes of updateColors; newGrid is the copy the first pass fills
updateColors(currentGrid, solution) ==
  CHOOSE colored \in
    {GridValue(MarkPresentFrom([grid |-> newGrid,
                                rowRemaining |-> rowRemainingInit(newGrid, solution),
                                colRemaining |-> colRemainingInit(newGrid, solution)],
                               1).grid) :
       newGrid \in {GridValue(MarkCorrect(currentGrid, solution))}} : TRUE

\* A win test that looks at all 25 cells
checkWinAllCells(grid) ==
  \A k \in 1 .. Len(AllCoords) :
     grid[AllCoords[k].row][AllCoords[k].col].status = CORRECT

checkWin(grid) ==
  \A k \in 1 .. Len(VALID_COORDS) :
     grid[VALID_COORDS[k].row][VALID_COORDS[k].col].status = CORRECT

---------------------------------------------------------------------------
(* generateInitialState.                                                   *)

\* Step 1: the number of green positions from the first draw
\* (rand < 0.25 -> 6, rand < 0.75 -> 7, otherwise 8)
MIN_GREENS == 6
MAX_GREENS == 8

\* A scramble that keeps no position green
numGreensNone(seed) == 0

numGreens(seed) ==
  LET rand == mulberry32(seed, 1)
  IN  IF rand.h < 16384 THEN MIN_GREENS
      ELSE IF rand.h < 49152 THEN MIN_GREENS + 1
      ELSE MAX_GREENS

\* Step 2: the first numGreens coordinates of the shuffled valid coordinates
greenPositions(seed) ==
  LET shuffledCoords == seededShuffle(VALID_COORDS, seed + 1)
  IN  {shuffledCoords[i] : i \in 1 .. numGreens(seed)}

\* Step 3: the solution letters of the non-green cells, in VALID_COORDS order
nonGreenLetters(solution, green) ==
  LET nonGreen == SelectSeq(VALID_COORDS, LAMBDA p : p \notin green)
      letterAt(i) == solution[nonGreen[i].row][nonGreen[i].col]
  IN  SubSeq([i \in 1 .. Len(nonGreen) |-> letterAt(i)], 1, Len(nonGreen))

\* The value of nonGreenIndex when the build loop reaches the cell (r, c)
nonGreenIndex(green, r, c) ==
  Cardinality({k \in 1 .. Len(VALID_COORDS) :
                 /\ VALID_COORDS[k] \notin green
                 /\ \/ VALID_COORDS[k].row < r
                    \/ VALID_COORDS[k].row = r /\ VALID_COORDS[k].col < c})

\* Step 5: the grid before colouring
BuildGrid(solution, green, deranged) ==
  [r \in Idx |-> [c \in Idx |->
     IF isValidCell(r, c)
     THEN IF Coord(r, c) \in green
          THEN [char |-> solution[r][c], status |-> WRONG]
          ELSE [char |-> deranged[nonGreenIndex(green, r, c) + 1],
                status |-> WRONG]
     ELSE [char |-> "", status |-> NONE]]]

\* Steps 3 to 5 and the colouring, for the green positions of step 2.  The
\* set bindings make each step's result a value before the next step uses it.
InitialStateFor(solution, seed, greenPos) ==
  CHOOSE grid \in
    UNION {{updateColors(BuildGrid(solution, greenPos, derangedLetters), solution) :
              derangedLetters \in
                {generateDerangement(nonGreenOriginalLetters,
                                     nonGreenOriginalLetters, seed + 2)}} :
           nonGreenOriginalLetters \in {nonGreenLetters(solution, greenPos)}} : TRUE

generateInitialState(solution, seed) ==
  CHOOSE grid \in {InitialStateFor(solution, seed, greenPos) :
                     greenPos \in {greenPositions(seed)}} : TRUE

---------------------------------------------------------------------------
(* The session of App.tsx.                                                 *)

\* Bounds of the model
MaxSeed == 1517       \* puzzle numbers 1 .. MaxSeed are scrambled
MaxGameSeed == 4      \* puzzle numbers 1 .. MaxGameSeed are played
MaxPick == 1          \* the player drags one of the first MaxPick movable tiles
MaxPending == 2       \* swap timers the player lets run at the same time
MaxWrong == 3         \* tiles out of place in a resumed session
MaxLeft == 1          \* swaps a resumed session has left

\* The value of a state that has not been set (null in the source)
Null == << >>
NotRead == 0     \* no puzzle number, no instant

VARIABLES
  seed,       \* getDailySeed(): the puzzle number of the day
  solution,   \* React state `solution`
  grid,       \* React state `grid` (Null while loading)
  swaps,      \* React state `swaps`
  status,     \* React state `status`
  saved,      \* the gameState record stored for the puzzle (Null when none)
  dragging,   \* React state `dragging` (Null when no tile is held)
  timers,     \* the setTimeout callbacks of onPointerUp that have not run,
              \* each with the render state its performSwap closed over
  words,      \* WORDS, the word list of the build
  puzzle,     \* what getDailyPuzzle() returned (Null before the call)
  again,      \* what a second derivation of the day's puzzle and grid returned
  now,        \* the instant new Date() returns
  midnight,   \* what getNextMidnight() returned (NotRead before the call)
  search,     \* the loops of a running generatePuzzle (Null when none runs)
  db,         \* the statistics database: game records and stats
  calls       \* the recordGameResult calls that have not returned

\* The state of the game session, and the state of the daily utilities
session == <<solution, grid, swaps, status, saved, dragging, timers>>
daily == <<words, puzzle, again, now, midnight, search, db, calls>>

vars == <<seed, solution, grid, swaps, status, saved, dragging, timers,
          words, puzzle, again, now, midnight, search, db, calls>>

\* The daily utilities are not called
DailyIdle ==
  /\ words = Null
  /\ puzzle = Null
  /\ again = Null
  /\ now = NotRead
  /\ midnight = NotRead
  /\ search = Null
  /\ db = Null
  /\ calls = << >>

\* getDailyPuzzle().solution for the puzzle numbers of the model
DailySolutions == {FALLBACK_SOLUTION}

\* The component before initGame has run
Loading(seeds) ==
  /\ seed \in seeds
  /\ solution \in DailySolutions
  /\ grid = Null
  /\ swaps = TOTAL_SWAPS
  /\ status = "PLAYING"
  /\ saved = Null
  /\ dragging = Null
  /\ timers = << >>
  /\ DailyIdle

ScrambleInit == Loading(1 .. MaxSeed)

\* initGame, no saved state: generate the grid and save the initial state
InitGame ==
  /\ grid = Null
  /\ saved = Null
  /\ \E initialGrid \in {generateInitialState(solution, seed)} :
       /\ grid' = initialGrid
       /\ status' = IF checkWin(initialGrid) THEN "WON" ELSE status
       /\ saved' = [puzzleId |-> seed, grid |-> initialGrid,
                    swaps |-> TOTAL_SWAPS, status |-> "PLAYING",
                    solution |-> solution]
  /\ UNCHANGED <<seed, solution, swaps, dragging, timers>>
  /\ UNCHANGED daily

\* The valid cells that are not CORRECT, in row-major order
Movable(g) ==
  SelectSeq(VALID_COORDS, LAMBDA p : g[p.row][p.col].status # CORRECT)

\* handlePointerDown: the tile picked up is not CORRECT.  The player of the
\* model picks one of the first MaxPick such tiles.
DragSources(g) ==
  {Movable(g)[k] : k \in 1 .. (IF Len(Movable(g)) < MaxPick
                               THEN Len(Movable(g)) ELSE MaxPick)}

\* handlePointerDown: validTargets, the other tiles that are not CORRECT
validTargets(g, from) ==
  {p \in ValidSet : p # from /\ g[p.row][p.col].status # CORRECT}

\* The position of a cell in the row-major order of the tiles
Rank(p) == p.row * GRID_SIZE + p.col

\* onPointerMove: the hover target is one of dragging.targets.  The player
\* of the model hovers over a target holding the letter the source position
\* needs, or over the next target after the source.
DropTargets(g, sol, from, targets) ==
  {t \in targets :
     \/ g[t.row][t.col].char = sol[from.row][from.col]
     \/ /\ Rank(t) > Rank(from)
        /\ \A u \in targets : Rank(u) > Rank(from) => Rank(t) <= Rank(u)}

\* handlePointerDown: a tile that is not CORRECT is picked up
HandlePointerDown ==
  /\ grid # Null
  /\ status = "PLAYING"
  /\ dragging = Null
  /\ \E from \in DragSources(grid) :
       dragging' = [source |-> from, targets |-> validTargets(grid, from)]
  /\ UNCHANGED <<seed, solution, grid, swaps, status, saved, timers>>
  /\ UNCHANGED daily

\* onPointerUp over a target: the swap is scheduled after the animation,
\* with the performSwap of the render in which the listener was registered
OnPointerUp ==
  /\ dragging # Null
  /\ grid # Null
  /\ Len(timers) < MaxPending
  /\ \E to \in DropTargets(grid, solution, dragging.source, dragging.targets) :
       timers' = Append(timers, [from |-> dragging.source, to |-> to,
                                 grid |-> grid, swaps |-> swaps,
                                 status |-> status])
  /\ dragging' = Null
  /\ UNCHANGED <<seed, solution, grid, swaps, status, saved>>
  /\ UNCHANGED daily

\* onPointerUp with no hover target: the tile is put back
Release ==
  /\ dragging # Null
  /\ dragging' = Null
  /\ UNCHANGED <<seed, solution, grid, swaps, status, saved, timers>>
  /\ UNCHANGED daily

\* A swap that forgets the temporary: the source letter is overwritten
\* before it is copied to the target
SwapCharsNoTemp(g, from, to) ==
  [g EXCEPT ![from.row][from.col].char = g[to.row][to.col].char]

\* The letters of the two cells exchanged, statuses left as they were
SwapChars(g, from, to) ==
  [g EXCEPT ![from.row][from.col].char = g[to.row][to.col].char,
            ![to.row][to.col].char = g[from.row][from.col].char]

\* The early returns of performSwap, on the state its closure c holds
SwapAccepted(c, from, to) ==
  /\ c.grid # Null
  /\ c.status = "PLAYING"
  /\ c.grid[from.row][from.col].status # CORRECT
  /\ c.grid[to.row][to.col].status # CORRECT
  /\ ~(from.row = to.row /\ from.col = to.col)

\* A status computation that tests the swap budget before the win
StatusAfterLostFirst(isWin, newSwaps) ==
  IF newSwaps <= 0 THEN "LOST"
  ELSE IF isWin THEN "WON"
  ELSE "PLAYING"

\* newStatus of performSwap
StatusAfter(isWin, newSwaps) ==
  IF isWin THEN "WON"
  ELSE IF newSwaps <= 0 THEN "LOST"
  ELSE "PLAYING"

\* What performSwap computes from the render state c for an accepted swap:
\* coloredGrid, newSwaps and newStatus
swapResult(c, from, to) ==
  CHOOSE r \in
    {[grid |-> coloredGrid, swaps |-> c.swaps - 1,
      status |-> StatusAfter(checkWin(coloredGrid), c.swaps - 1)] :
       coloredGrid \in {updateColors(SwapChars(c.grid, from, to), solution)}} :
    TRUE

\* What saveGameState stores
SavedState(r) ==
  [puzzleId |-> seed, grid |-> r.grid, swaps |-> r.swaps,
   status |-> r.status, solution |-> solution]

\* performSwap(from, to) of the render whose state is c.  setStatus is
\* called for WON and LOST only.
performSwap(c, from, to) ==
  IF SwapAccepted(c, from, to)
  THEN \E r \in {swapResult(c, from, to)} :
         /\ grid' = r.grid
         /\ swaps' = r.swaps
         /\ status' = IF r.status = "PLAYING" THEN status ELSE r.status
         /\ saved' = SavedState(r)
  ELSE UNCHANGED <<grid, swaps, status, saved>>

\* The oldest timer runs its callback
PerformSwap ==
  /\ timers # << >>
  /\ performSwap(Head(timers), Head(timers).from, Head(timers).to)
  /\ timers' = Tail(timers)
  /\ UNCHANGED <<seed, solution, dragging>>
  /\ UNCHANGED daily

\* The swap of a player who puts the right letter on the first tile that
\* is not CORRECT, taking the letter from the first tile that offers it
\* (from the first other tile when none does)
SolvingSwap(c) ==
  LET from == Movable(c.grid)[1]
      targets == validTargets(c.grid, from)
      offers == {t \in targets :
                   c.grid[t.row][t.col].char = solution[from.row][from.col]}
      among == IF offers = {} THEN targets ELSE offers
      to == CHOOSE t \in among : \A u \in among : Rank(t) <= Rank(u)
  IN  swapResult(c, from, to)

\* A swap needs two tiles that are not CORRECT and a session that goes on
CanSwap(c) == c.status = "PLAYING" /\ Len(Movable(c.grid)) >= 2

\* The session after n such swaps, or fewer when it ended before
RECURSIVE SolvingPlay(_, _)
SolvingPlay(c, n) ==
  IF n = 0 \/ ~CanSwap(c) THEN c
  ELSE IF n = 1 THEN SolvingSwap(c)
  ELSE \* the first half of the swaps is computed before the second
       CHOOSE last \in {SolvingPlay(half, n - n \div 2) :
                          half \in {SolvingPlay(c, n \div 2)}} : TRUE

\* The session initGame creates and saves for a new puzzle
NewSession ==
  CHOOSE c \in {[grid |-> initialGrid, swaps |-> TOTAL_SWAPS, status |-> "PLAYING"] :
                  initialGrid \in {generateInitialState(solution, seed)}} :
    TRUE

\* The swap of a player who exchanges the first two tiles that are not
\* CORRECT
OtherSwap(c) ==
  swapResult(c, Movable(c.grid)[1], Movable(c.grid)[2])

\* The session after n such swaps, or fewer when it ended before
RECURSIVE OtherPlay(_, _)
OtherPlay(c, n) ==
  IF n = 0 \/ ~CanSwap(c) THEN c
  ELSE IF n = 1 THEN OtherSwap(c)
  ELSE \* the first half of the swaps is computed before the second
       CHOOSE last \in {OtherPlay(half, n - n \div 2) :
                          half \in {OtherPlay(c, n \div 2)}} : TRUE

\* The sessions an earlier visit of the day left in the store.  From the
\* new session c the player made some other swaps, then some solving swaps,
\* and left with 1 .. MaxLeft swaps and at most MaxWrong tiles out of place.
StoredSessions(c) ==
  UNION {{SavedState(s) :
            s \in {ss \in {SolvingPlay(other, other.swaps - left) :
                             left \in {k \in 1 .. MaxLeft : k <= other.swaps}} :
                     /\ ss.status = "PLAYING"
                     /\ ss.swaps \in 1 .. MaxLeft
                     /\ Len(Movable(ss.grid)) <= MaxWrong}} :
         other \in {o \in {OtherPlay(c, w) : w \in 0 .. TOTAL_SWAPS - 1} :
                      o.status = "PLAYING"}}

\* The component before initGame has run, on a day the game was played
Resuming(seeds) ==
  /\ seed \in seeds
  /\ solution \in DailySolutions
  /\ grid = Null
  /\ swaps = TOTAL_SWAPS
  /\ status = "PLAYING"
  /\ \E newSession \in {NewSession} : saved \in StoredSessions(newSession)
  /\ dragging = Null
  /\ timers = << >>
  /\ DailyIdle

Init == Resuming(1 .. MaxGameSeed)

\* initGame with a saved state: the session is restored
LoadGame ==
  /\ grid = Null
  /\ saved # Null
  /\ grid' = saved.grid
  /\ swaps' = saved.swaps
  /\ solution' = saved.solution
  /\ status' = saved.status
  /\ UNCHANGED <<seed, saved, dragging, timers>>
  /\ UNCHANGED daily

Next == LoadGame \/ HandlePointerDown \/ OnPointerUp \/ Release \/ PerformSwap

Spec == Init /\ [][Next]_vars

\* The sessions an earlier visit left in the store with one swap more than
\* MaxLeft, made as those of StoredSessions are
LongerSessions(c) ==
  UNION {{SavedState(s) :
            s \in {ss \in {SolvingPlay(other, other.swaps - (MaxLeft + 1))} :
                     /\ ss.status = "PLAYING"
                     /\ ss.swaps = MaxLeft + 1
                     /\ Len(Movable(ss.grid)) <= MaxWrong}} :
         other \in {o \in {OtherPlay(c, w) : w \in 0 .. TOTAL_SWAPS - 1} :
                      o.status = "PLAYING" /\ o.swaps > MaxLeft}}

\* The component before initGame has run, on a day the game was left with
\* swaps to go on after the next one
PlayInit ==
  /\ seed \in 1 .. MaxGameSeed
  /\ solution \in DailySolutions
  /\ grid = Null
  /\ swaps = TOTAL_SWAPS
  /\ status = "PLAYING"
  /\ \E newSession \in {NewSession} : saved \in LongerSessions(newSession)
  /\ dragging = Null
  /\ timers = << >>
  /\ DailyIdle

PlaySpec == PlayInit /\ [][Next]_vars

\* The scramble alone, over more puzzle numbers
ScrambleSpec == ScrambleInit /\ [][InitGame]_vars

---------------------------------------------------------------------------
(* generatePuzzle and getDailyPuzzle.  WORDS comes from the constants      *)
(* file, which is not part of the sources at hand: the model takes word    *)
(* lists of the shape the specification gives it, a flat array of words of *)
(* five letters.                                                           *)

MaxPuzzleSeed == 3    \* puzzle numbers 1 .. MaxPuzzleSeed are generated
MaxDropped == 2       \* words taken out of the pool to make a word list

\* The six words of FALLBACK_SOLUTION, and two more: one that differs from
\* a row word in its last letter only, one that can stand for a column word
WORD_POOL ==
  << <<"P", "L", "A", "Zh", "A">>,  <<"V", "E", "T", "E", "R">>,
     <<"Ch", "E", "K", "O", "R">>,  <<"P", "E", "V", "A", "Ch">>,
     <<"A", "N", "T", "I", "K">>,   <<"A", "K", "R", "E", "R">>,
     <<"V", "A", "T", "O", "K">>,   <<"A", "L", "R", "I", "R">> >>

\* The pool without the words at the indices in dropped, in pool order
PoolWithout(dropped) ==
  LET kept == (1 .. Len(WORD_POOL)) \ dropped
      nth(k) == CHOOSE i \in kept : Cardinality({j \in kept : j < i}) = k - 1
  IN  SubSeq([k \in 1 .. Cardinality(kept) |-> WORD_POOL[nth(k)]],
             1, Cardinality(kept))

\* A list whose waffles have two rows of the same three crossing letters:
\* two words fit the third row and the fifth row alike
TWIN_LIST ==
  << <<"A", "L", "A", "Zh", "A">>,  <<"A", "K", "R", "E", "R">>,
     <<"A", "L", "R", "I", "R">>,   <<"A", "N", "R", "O", "R">>,
     <<"R", "E", "R", "E", "R">>,   <<"R", "O", "R", "O", "R">> >>

WordLists ==
  {PoolWithout(dropped) :
     dropped \in {d \in SUBSET (1 .. Len(WORD_POOL)) : Cardinality(d) <= MaxDropped}}

MAX_ATTEMPTS == 50000

\* wordsByStart[first] || []: the words starting with first, in list order
wordsByStart(list, first) == SelectSeq(list, LAMBDA w : w[1] = first)

\* A lookup that does not test the fifth letter
findMatchLoose(list, c0, c2, c4, exclude) ==
  LET candidates == wordsByStart(list, c0)
      hits == {k \in 1 .. Len(candidates) :
                 candidates[k][3] = c2 /\ candidates[k] \notin exclude}
  IN  IF hits = {} THEN Null ELSE candidates[FirstOf(hits)]

\* A lookup that gives up when the first candidate with the three letters
\* is a word already used
findMatchFirstOnly(list, c0, c2, c4, exclude) ==
  LET candidates == wordsByStart(list, c0)
      hits == {k \in 1 .. Len(candidates) :
                 candidates[k][3] = c2 /\ candidates[k][5] = c4}
  IN  IF hits = {} \/ candidates[FirstOf(hits)] \in exclude
      THEN Null
      ELSE candidates[FirstOf(hits)]

\* findMatch: the first candidate with the three letters, not yet used
findMatch(list, c0, c2, c4, exclude) ==
  LET candidates == wordsByStart(list, c0)
      hits == {k \in 1 .. Len(candidates) :
                 /\ candidates[k][3] = c2
                 /\ candidates[k][5] = c4
                 /\ candidates[k] \notin exclude}
  IN  IF hits = {} THEN Null ELSE candidates[FirstOf(hits)]

\* The (h1, v1, v2, v3) the four nested loops reach: i is the index of h1
\* in the shuffled list, j, k and l the indices of v1, v2 and v3 among the
\* candidates of their loops; a word already in exclude is skipped
Attempts(list) ==
  UNION {UNION {UNION {
    {[i |-> i, j |-> j, k |-> k, l |-> l,
      h1 |-> list[i],
      v1 |-> wordsByStart(list, list[i][1])[j],
      v2 |-> wordsByStart(list, list[i][3])[k],
      v3 |-> wordsByStart(list, list[i][5])[l]] :
       l \in {x \in 1 .. Len(wordsByStart(list, list[i][5])) :
                wordsByStart(list, list[i][5])[x] \notin
                  {list[i], wordsByStart(list, list[i][1])[j],
                   wordsByStart(list, list[i][3])[k]}}} :
       k \in {x \in 1 .. Len(wordsByStart(list, list[i][3])) :
                wordsByStart(list, list[i][3])[x] \notin
                  {list[i], wordsByStart(list, list[i][1])[j]}}} :
       j \in {x \in 1 .. Len(wordsByStart(list, list[i][1])) :
                wordsByStart(list, list[i][1])[x] # list[i]}} :
       i \in 1 .. Len(list)}

\* The place of an attempt in the order of the loops
AttemptOrder(a, n) == ((a.i * (n + 1) + a.j) * (n + 1) + a.k) * (n + 1) + a.l

\* h2 and h3 of an attempt (Null when findMatch finds none)
H2Of(list, a) ==
  findMatch(list, a.v1[3], a.v2[3], a.v3[3], {a.h1, a.v1, a.v2, a.v3})

H3Of(list, a, h2) ==
  findMatch(list, a.v1[5], a.v2[5], a.v3[5], {a.h1, a.v1, a.v2, a.v3, h2})

AttemptSucceedsWith(list, a) ==
  \E h2 \in {H2Of(list, a)} : h2 # Null /\ H3Of(list, a, h2) # Null

buildGrid(h1, h2, h3, v1, v2, v3) ==
  Matrix(<< h1,
            <<v1[2], " ", v2[2], " ", v3[2]>>,
            h2,
            <<v1[4], " ", v2[4], " ", v3[4]>>,
            h3 >>)

\* The search on the shuffled list: the first attempt in loop order for
\* which h2 and h3 are found, unless more than MAX_ATTEMPTS attempts failed
\* before it
SearchPuzzle(shuffled, puzzleSeed) ==
  LET tried == Attempts(shuffled)
      n == Len(shuffled)
      hits == {a \in tried : AttemptSucceedsWith(shuffled, a)}
      first == CHOOSE a \in hits :
                 \A b \in hits : AttemptOrder(a, n) <= AttemptOrder(b, n)
      failedBefore ==
        Cardinality({a \in tried : AttemptOrder(a, n) < AttemptOrder(first, n)})
      h2 == H2Of(shuffled, first)
  IN  IF hits = {} \/ failedBefore > MAX_ATTEMPTS
      THEN [kind |-> "null"]
      ELSE [kind |-> "puzzle", id |-> puzzleSeed,
            solution |-> buildGrid(first.h1, h2, H3Of(shuffled, first, h2),
                                   first.v1, first.v2, first.v3)]

\* generatePuzzle(seed) for the word list of the build: a puzzle, null, or
\* an exception when the list cannot be iterated
generatePuzzle(list, puzzleSeed) ==
  IF list = Null THEN [kind |-> "throws"]
  ELSE CHOOSE result \in {SearchPuzzle(shuffled, puzzleSeed) :
                            shuffled \in {seededShuffle(list, puzzleSeed)}} : TRUE

\* A getDailyPuzzle whose fallback carries no puzzle number
getDailyPuzzleUnnumbered(list, puzzleSeed) ==
  LET generated == generatePuzzle(list, puzzleSeed)
  IN  IF generated.kind = "puzzle"
      THEN [id |-> generated.id, solution |-> generated.solution]
      ELSE [id |-> 0, solution |-> FALLBACK_SOLUTION]

\* A getDailyPuzzle whose generator is kept between calls: a later call
\* goes on where the earlier one stopped
getDailyPuzzleKeptGenerator(list, puzzleSeed) ==
  LET generated ==
        generatePuzzle(list, IF puzzle = Null THEN puzzleSeed ELSE puzzleSeed + 1)
  IN  IF generated.kind = "puzzle"
      THEN [id |-> puzzleSeed, solution |-> generated.solution]
      ELSE [id |-> puzzleSeed, solution |-> FALLBACK_SOLUTION]

getDailyPuzzle(list, puzzleSeed) ==
  LET generated == generatePuzzle(list, puzzleSeed)
  IN  IF generated.kind = "puzzle"
      THEN [id |-> generated.id, solution |-> generated.solution]
      ELSE [id |-> puzzleSeed, solution |-> FALLBACK_SOLUTION]

\* The component before initGame has run on a day nothing is stored, for
\* the word lists of the model and for a list that cannot be iterated
PuzzleInit ==
  /\ seed \in 1 .. MaxPuzzleSeed
  /\ words \in WordLists \cup {TWIN_LIST, Null}
  /\ solution = Null
  /\ grid = Null
  /\ swaps = TOTAL_SWAPS
  /\ status = "PLAYING"
  /\ saved = Null
  /\ dragging = Null
  /\ timers = << >>
  /\ puzzle = Null
  /\ again = Null
  /\ now = NotRead
  /\ midnight = NotRead
  /\ search = Null
  /\ db = Null
  /\ calls = << >>

\* What initGame derives for a new day: the puzzle and its initial grid
Derived(list, puzzleSeed) ==
  CHOOSE d \in {[puzzle |-> dailyPuzzle,
                 grid |-> generateInitialState(dailyPuzzle.solution, puzzleSeed)] :
                  dailyPuzzle \in {getDailyPuzzle(list, puzzleSeed)}} : TRUE

\* initGame, no saved state, with the puzzle of the day generated
StartPuzzle ==
  /\ grid = Null
  /\ saved = Null
  /\ \E d \in {Derived(words, seed)} :
       /\ puzzle' = d.puzzle
       /\ solution' = d.puzzle.solution
       /\ grid' = d.grid
       /\ status' = IF checkWin(d.grid) THEN "WON" ELSE status
       /\ saved' = [puzzleId |-> seed, grid |-> d.grid,
                    swaps |-> TOTAL_SWAPS, status |-> "PLAYING",
                    solution |-> d.puzzle.solution]
  /\ UNCHANGED <<seed, swaps, dragging, timers, words, again, now, midnight,
                 search, db, calls>>

\* The same derivation made a second time (another tab, or after the
\* stored state was lost)
DeriveAgain ==
  /\ grid # Null
  /\ again = Null
  /\ \E d \in {Derived(words, seed)} : again' = d
  /\ UNCHANGED <<seed, session, words, puzzle, now, midnight, search, db, calls>>

PuzzleNext == StartPuzzle \/ DeriveAgain

PuzzleSpec == PuzzleInit /\ [][PuzzleNext]_vars

----------------------------------------------------------------------------
(* The loops of generatePuzzle, one iteration of the outer loop a step,    *)
(* with the counter of the failed combinations.  The list of many words    *)
(* is of the shape the specification gives a word list; its words give     *)
(* more combinations than MAX_ATTEMPTS and no waffle.                      *)

\* Bounds of the model
MaxAcross == 20       \* words A.A.C of the list of many words
MaxDown == 8          \* words C.D.D of the list of many words

\* MaxAcross words that can be h1, v1 and v2 of one another, MaxDown words
\* that can be their v3, and no word for the third row
MANY_LIST ==
  LET middles == <<"L", "K", "R", "E", "O", "N">>
      MiddleOf(n, place) ==
        IF place = 1 THEN middles[((n - 1) \div Len(middles)) + 1]
        ELSE middles[((n - 1) % Len(middles)) + 1]
  IN
  SubSeq([n \in 1 .. MaxAcross |->
            <<"A", MiddleOf(n, 1), "A", MiddleOf(n, 2), "C">>]
         \o [n \in 1 .. MaxDown |->
            <<"C", MiddleOf(n, 1), "D", MiddleOf(n, 2), "D">>],
         1, MaxAcross + MaxDown)

\* The combinations <<v1, v2, v3>> the three inner loops reach for h1 =
\* list[i], as indices into the list: the candidates of a start letter keep
\* the order of the list, a word in exclude is skipped
CombinationsOf(list, i) ==
  LET n == Len(list)
      v1s == {j \in 1 .. n : list[j][1] = list[i][1] /\ list[j] # list[i]}
      v2s(j) == {k \in 1 .. n : /\ list[k][1] = list[i][3]
                                /\ list[k] \notin {list[i], list[j]}}
      v3s(j, k) == {l \in 1 .. n : /\ list[l][1] = list[i][5]
                                   /\ list[l] \notin {list[i], list[j], list[k]}}
  IN  UNION {UNION {{<<j, k, l>> : l \in v3s(j, k)} : k \in v2s(j)} : j \in v1s}

\* The order in which the inner loops reach two combinations of one h1
ReachedBefore(c, d) ==
  \/ c[1] < d[1]
  \/ c[1] = d[1] /\ c[2] < d[2]
  \/ c[1] = d[1] /\ c[2] = d[2] /\ c[3] < d[3]

AttemptFor(list, i, c) ==
  [h1 |-> list[i], v1 |-> list[c[1]], v2 |-> list[c[2]], v3 |-> list[c[3]]]

\* The state of the loops when the outer loop has gone through h1 =
\* list[i]: every combination fails and counts (line 214) until h2 and h3
\* are found (line 205) or the counter has passed MAX_ATTEMPTS (line 215)
AfterH1(list, i, attempts, examined) ==
  LET all == CombinationsOf(list, i)
      hits == {c \in all : AttemptSucceedsWith(list, AttemptFor(list, i, c))}
      first == CHOOSE c \in hits : \A d \in hits : c = d \/ ReachedBefore(c, d)
      failedFirst == IF hits = {} THEN Cardinality(all)
                     ELSE Cardinality({c \in all : ReachedBefore(c, first)})
      room == MAX_ATTEMPTS + 1 - attempts
  IN  IF hits # {} /\ failedFirst < room
      THEN [i |-> i, attempts |-> attempts + failedFirst,
            examined |-> examined + failedFirst + 1, result |-> "puzzle",
            solution |->
              LET a == AttemptFor(list, i, first)
                  h2 == H2Of(list, a)
              IN  buildGrid(a.h1, h2, H3Of(list, a, h2), a.v1, a.v2, a.v3)]
      ELSE IF failedFirst >= room
      THEN [i |-> i, attempts |-> attempts + room,
            examined |-> examined + room, result |-> "null", solution |-> Null]
      ELSE [i |-> i + 1, attempts |-> attempts + failedFirst,
            examined |-> examined + failedFirst,
            result |-> IF i = Len(list) THEN "null" ELSE "running",
            solution |-> Null]

\* generatePuzzle is entered for one of the word lists
SearchInit ==
  /\ seed \in 1 .. MaxPuzzleSeed
  /\ words \in WordLists \cup {TWIN_LIST, MANY_LIST}
  /\ solution = Null
  /\ grid = Null
  /\ swaps = TOTAL_SWAPS
  /\ status = "PLAYING"
  /\ saved = Null
  /\ dragging = Null
  /\ timers = << >>
  /\ puzzle = Null
  /\ again = Null
  /\ now = NotRead
  /\ midnight = NotRead
  /\ search = Null
  /\ db = Null
  /\ calls = << >>

\* Lines 133-162: the shuffle, the index, the counter at 0
EnterLoops ==
  /\ search = Null
  /\ search' = [list |-> seededShuffle(words, seed), i |-> 1, attempts |-> 0,
                examined |-> 0, result |-> "running", solution |-> Null]
  /\ UNCHANGED <<seed, session, words, puzzle, again, now, midnight, db, calls>>

\* Lines 170-224: one iteration of the outer loop
NextH1 ==
  /\ search # Null
  /\ search.result = "running"
  /\ \E after \in {AfterH1(search.list, search.i, search.attempts,
                           search.examined)} :
       search' = [list |-> search.list, i |-> after.i,
                  attempts |-> after.attempts, examined |-> after.examined,
                  result |-> after.result, solution |-> after.solution]
  /\ UNCHANGED <<seed, session, words, puzzle, again, now, midnight, db, calls>>

SearchNext == EnterLoops \/ NextH1

SearchSpec == SearchInit /\ [][SearchNext]_vars

----------------------------------------------------------------------------
(* A session that is played over midnight.  seed is what getDailySeed()    *)
(* returns when it is called: initGame reads it to load and to store,      *)
(* performSwap reads it again each time it stores.                         *)

\* Bound of the model
MaxPlayed == 1        \* swaps the player starts in a session of the day

\* The date of Europe/Amsterdam changes: getDailySeed() returns the next
\* puzzle number from now on
Midnight ==
  /\ seed <= MaxPuzzleSeed
  /\ seed' = seed + 1
  /\ UNCHANGED <<session, daily>>

\* The component before initGame has run on a day nothing is stored
RolloverInit ==
  /\ seed \in 1 .. MaxPuzzleSeed
  /\ words \in {WORD_POOL, TWIN_LIST}
  /\ solution = Null
  /\ grid = Null
  /\ swaps = TOTAL_SWAPS
  /\ status = "PLAYING"
  /\ saved = Null
  /\ dragging = Null
  /\ timers = << >>
  /\ puzzle = Null
  /\ again = Null
  /\ now = NotRead
  /\ midnight = NotRead
  /\ search = Null
  /\ db = Null
  /\ calls = << >>

\* The player starts no more than MaxPlayed swaps
StartDrag == swaps > TOTAL_SWAPS - MaxPlayed /\ HandlePointerDown

RolloverNext ==
  \/ StartPuzzle
  \/ Midnight
  \/ StartDrag
  \/ OnPointerUp
  \/ Release
  \/ PerformSwap

RolloverSpec == RolloverInit /\ [][RolloverNext]_vars

---------------------------------------------------------------------------
(* getDailySeed and getNextMidnight.  An instant is a whole number of      *)
(* hours since 1970-01-01T00:00Z: the transitions of Europe/Amsterdam and  *)
(* its midnights fall on whole hours, and the milliseconds of the code do  *)
(* not fit the integers of the model checker.                              *)

MaxHours == 8472      \* instants from 2026-01-15T00:00Z on, one per hour

HOURS_PER_DAY == 24
DAYS_TO_2026 == 20454           \* days from 1970-01-01 to 2026-01-01
LAUNCH_YEAR == 2026
LAUNCH_MONTH == 1
LAUNCH_DAY == 17

\* The calendar of 2025 .. 2027, none of them a leap year
CalendarYears == 2025 .. 2027
MonthLengths == <<31, 28, 31, 30, 31, 30, 31, 31, 30, 31, 30, 31>>
DaysBeforeMonth == <<0, 31, 59, 90, 120, 151, 181, 212, 243, 273, 304, 334>>
YearStart(year) == DAYS_TO_2026 + 365 * (year - 2026)

\* Date.UTC(year, monthIndex, day): a day past the end of the month runs
\* on into the next one
DateUTC(year, monthIndex, day) ==
  (YearStart(year) + DaysBeforeMonth[monthIndex + 1] + day - 1) * HOURS_PER_DAY

\* Europe/Amsterdam in 2026: summer time from the last Sunday of March,
\* 01:00 UTC, to the last Sunday of October, 01:00 UTC
DST_START == DateUTC(2026, 2, 29) + 1
DST_END == DateUTC(2026, 9, 25) + 1
AmsterdamOffset(t) == IF DST_START <= t /\ t < DST_END THEN 2 ELSE 1

\* The hour the formatter shows for an instant
AmsterdamHour(t) == (t + AmsterdamOffset(t)) % HOURS_PER_DAY

\* year, month and day of a day counted from 1970-01-01
CivilFromDays(n) ==
  LET year == CHOOSE y \in CalendarYears : YearStart(y) <= n /\ n < YearStart(y + 1)
      dayOfYear == n - YearStart(year)
      month == CHOOSE m \in 1 .. 12 :
                 /\ DaysBeforeMonth[m] <= dayOfYear
                 /\ dayOfYear < DaysBeforeMonth[m] + MonthLengths[m]
  IN  [year |-> year, month |-> month,
       day |-> dayOfYear - DaysBeforeMonth[month] + 1]

getAmsterdamDateParts(t) ==
  CivilFromDays((t + AmsterdamOffset(t)) \div HOURS_PER_DAY)

\* A day count that takes every month for 30 days long
daysSinceEpochFlat(year, month, day) ==
  YearStart(year) + 30 * (month - 1) + day - 1

daysSinceEpoch(year, month, day) ==
  DateUTC(year, month - 1, day) \div HOURS_PER_DAY

Max(a, b) == IF a >= b THEN a ELSE b

\* getDailySeed() called at instant t
getDailySeed(t) ==
  LET parts == getAmsterdamDateParts(t)
      todayDays == daysSinceEpoch(parts.year, parts.month, parts.day)
      launchDays == daysSinceEpoch(LAUNCH_YEAR, LAUNCH_MONTH, LAUNCH_DAY)
      puzzleNumber == todayDays - launchDays + 1
  IN  Max(1, puzzleNumber)

\* A next midnight that takes the offset in effect at the call
getNextMidnightOffsetNow(t) ==
  LET parts == getAmsterdamDateParts(t)
      tomorrowUTC == DateUTC(parts.year, parts.month - 1, parts.day + 1)
  IN  tomorrowUTC - AmsterdamOffset(t)

\* A next midnight computed for the day of the call, not the day after
getNextMidnightToday(t) ==
  LET parts == getAmsterdamDateParts(t)
      todayUTC == DateUTC(parts.year, parts.month - 1, parts.day)
  IN  todayUTC - AmsterdamHour(todayUTC)

\* getNextMidnight() called at instant t
getNextMidnight(t) ==
  LET parts == getAmsterdamDateParts(t)
      tomorrowUTC == DateUTC(parts.year, parts.month - 1, parts.day + 1)
      amsterdamHourAtUTCMidnight == AmsterdamHour(tomorrowUTC)
      offsetHours == amsterdamHourAtUTCMidnight
  IN  tomorrowUTC - offsetHours

FirstInstant == DateUTC(2026, 0, 15)
Instants == FirstInstant .. (FirstInstant + MaxHours)

\* The page at some instant of the clock, before either function is called
TimeInit ==
  /\ now \in Instants
  /\ seed = NotRead
  /\ midnight = NotRead
  /\ solution = Null
  /\ grid = Null
  /\ swaps = TOTAL_SWAPS
  /\ status = "PLAYING"
  /\ saved = Null
  /\ dragging = Null
  /\ timers = << >>
  /\ words = Null
  /\ puzzle = Null
  /\ again = Null
  /\ search = Null
  /\ db = Null
  /\ calls = << >>

\* const puzzleId = getDailySeed()
GetDailySeed ==
  /\ seed = NotRead
  /\ seed' = getDailySeed(now)
  /\ UNCHANGED <<session, words, puzzle, again, now, midnight, search, db, calls>>

\* const target = getNextMidnight()
GetNextMidnight ==
  /\ midnight = NotRead
  /\ midnight' = getNextMidnight(now)
  /\ UNCHANGED <<seed, session, words, puzzle, again, now, search, db, calls>>

TimeNext == GetDailySeed \/ GetNextMidnight

TimeSpec == TimeInit /\ [][TimeNext]_vars

----------------------------------------------------------------------------
(* recordGameResult of statsDb.ts.  The database is shared by the tabs of  *)
(* the browser; a call is a chain of awaited steps, each with a            *)
(* transaction of its own: getGameRecord, getStats, and the transaction    *)
(* that puts the record and the stats.  Steps of different calls           *)
(* interleave.                                                             *)

\* Bounds of the model
MaxCalls == 2         \* calls of recordGameResult, one for each tab
MaxRecorded == 2      \* puzzle numbers 1 .. MaxRecorded have results

MAX_STARS == 5

DistributionKeys ==
  {"failed", "stars0", "stars1", "stars2", "stars3", "stars4", "stars5"}

DEFAULT_STATS ==
  [played |-> 0, totalStars |-> 0, currentStreak |-> 0, bestStreak |-> 0,
   distribution |-> [key \in DistributionKeys |-> 0],
   lastPlayedDate |-> NotRead]

\* updateDistribution: one more in the bucket of the result
updateDistribution(distribution, won, stars) ==
  LET STAR_KEYS == <<"stars0", "stars1", "stars2", "stars3", "stars4", "stars5">>
  IN
  IF ~won THEN [distribution EXCEPT !["failed"] = @ + 1]
  ELSE IF stars \in 0 .. MAX_STARS
       THEN [distribution EXCEPT ![STAR_KEYS[stars + 1]] = @ + 1]
       ELSE distribution

\* The record of recordGameResult: -1 stars for a loss
GameRecordOf(puzzleId, won, starsEarned, dateString) ==
  [puzzleId |-> puzzleId, stars |-> IF won THEN starsEarned ELSE -1,
   date |-> dateString]

\* newStats of recordGameResult
NewStats(currentStats, won, starsEarned, dateString) ==
  [played |-> currentStats.played + 1,
   totalStars |-> currentStats.totalStars + (IF won THEN starsEarned ELSE 0),
   currentStreak |-> IF won THEN currentStats.currentStreak + 1 ELSE 0,
   bestStreak |-> IF won
                  THEN Max(currentStats.bestStreak, currentStats.currentStreak + 1)
                  ELSE currentStats.bestStreak,
   distribution |-> updateDistribution(currentStats.distribution, won, starsEarned),
   lastPlayedDate |-> dateString]

\* The results a game ends with: lost, or won with the swaps left as stars
GameResults ==
  {[won |-> FALSE, starsEarned |-> 0]}
    \cup {[won |-> TRUE, starsEarned |-> n] : n \in {0, MAX_STARS}}

\* A new user: no records, no stats stored, no call made
StatsInit ==
  /\ seed \in 1 .. MaxRecorded
  /\ solution = Null
  /\ grid = Null
  /\ swaps = TOTAL_SWAPS
  /\ status = "PLAYING"
  /\ saved = Null
  /\ dragging = Null
  /\ timers = << >>
  /\ words = Null
  /\ puzzle = Null
  /\ again = Null
  /\ now = NotRead
  /\ midnight = NotRead
  /\ search = Null
  /\ db = [records |-> {}, stats |-> DEFAULT_STATS]
  /\ calls = << >>

\* The game of a tab has ended: the effect calls recordResult, which reads
\* the puzzle number and the date and enters recordGameResult
RecordResult ==
  /\ db # Null
  /\ Len(calls) < MaxCalls
  /\ \E result \in GameResults :
       calls' = Append(calls, [puzzleId |-> seed, won |-> result.won,
                               starsEarned |-> result.starsEarned,
                               dateString |-> seed, pc |-> "getGameRecord",
                               currentStats |-> Null])
  /\ UNCHANGED <<seed, session, words, puzzle, again, now, midnight, search, db>>

\* The date changes between the games of the tabs
NextDay ==
  /\ db # Null
  /\ seed < MaxRecorded
  /\ seed' = seed + 1
  /\ UNCHANGED <<session, daily>>

\* await getGameRecord(puzzleId): with a record the call returns getStats()
GetGameRecord(n) ==
  /\ calls[n].pc = "getGameRecord"
  /\ calls' = [calls EXCEPT ![n].pc =
                 IF \E r \in db.records : r.puzzleId = calls[n].puzzleId
                 THEN "returned" ELSE "getStats"]
  /\ UNCHANGED <<seed, session, words, puzzle, again, now, midnight, search, db>>

\* await getStats()
GetStats(n) ==
  /\ calls[n].pc = "getStats"
  /\ calls' = [calls EXCEPT ![n].pc = "put", ![n].currentStats = db.stats]
  /\ UNCHANGED <<seed, session, words, puzzle, again, now, midnight, search, db>>

\* The readwrite transaction: the record is put in the store keyed by
\* puzzleId and the new stats are put
PutResult(n) ==
  /\ calls[n].pc = "put"
  /\ db' = [records |->
              {r \in db.records : r.puzzleId # calls[n].puzzleId}
                \cup {GameRecordOf(calls[n].puzzleId, calls[n].won,
                                   calls[n].starsEarned, calls[n].dateString)},
            stats |-> NewStats(calls[n].currentStats, calls[n].won,
                               calls[n].starsEarned, calls[n].dateString)]
  /\ calls' = [calls EXCEPT ![n].pc = "returned"]
  /\ UNCHANGED <<seed, session, words, puzzle, again, now, midnight, search>>

StatsNext ==
  \/ RecordResult
  \/ NextDay
  \/ \E n \in 1 .. Len(calls) : GetGameRecord(n) \/ GetStats(n) \/ PutResult(n)

StatsSpec == StatsInit /\ [][StatsNext]_vars

---------------------------------------------------------------------------
(* updateColors on the grids of its unit tests.  A swap of performSwap is  *)
(* taken in its two steps, the exchange of the letters and the             *)
(* recolouring, without the guards of the session, so that updateColors    *)
(* is given grids whose statuses are stale, as the tests give it.          *)

\* Bound of the model
MaxEdits == 1         \* exchanges of letters applied to a test grid

\* The solution of the updateColors tests
TEST_SOLUTION ==
  Matrix(<< <<"A", "B", "V", "G", "D">>,
            <<"E", " ", "Zh", " ", "Z">>,
            <<"I", "J", "K", "L", "M">>,
            <<"N", " ", "O", " ", "P">>,
            <<"R", "S", "T", "U", "F">> >>)

\* The same solution with a second A, in the middle column
TEST_SOLUTION_COLUMN == [TEST_SOLUTION EXCEPT ![3][2] = "A"]

\* A grid as the tests build it: WRONG on valid cells, NONE on gap cells
TestGrid(letters) ==
  [r \in Idx |-> [c \in Idx |->
     [char |-> letters[r][c],
      status |-> IF isValidCell(r, c) THEN WRONG ELSE NONE]]]

\* The letters of a test grid: those of `letters`, gap cells empty
WithEmptyGaps(letters) ==
  [r \in Idx |-> [c \in Idx |->
     IF isValidCell(r, c) THEN letters[r][c] ELSE ""]]

\* Row 0 is Kh A A G D: two A's where the row needs one
ONE_NEEDED ==
  [solution |-> TEST_SOLUTION,
   grid |-> TestGrid(WithEmptyGaps(
              [TEST_SOLUTION EXCEPT ![0][0] = "Kh", ![0][1] = "A", ![0][2] = "A"]))]

\* The same row, and the middle column needs an A at row 3
COLUMN_NEEDED ==
  [solution |-> TEST_SOLUTION_COLUMN,
   grid |-> TestGrid(WithEmptyGaps(
              [TEST_SOLUTION EXCEPT ![0][0] = "Kh", ![0][1] = "A", ![0][2] = "A",
                                    ![3][2] = "Kh"]))]

\* The letters of the solution, every status still WRONG
SOLVED_UNCOLORED ==
  [solution |-> TEST_SOLUTION, grid |-> TestGrid(TEST_SOLUTION)]

\* A letter the solution does not have, on every valid cell
ALL_ABSENT ==
  [solution |-> TEST_SOLUTION,
   grid |-> TestGrid(WithEmptyGaps([r \in Idx |-> [c \in Idx |-> "Kh"]]))]

TestCases == {ONE_NEEDED, COLUMN_NEEDED, SOLVED_UNCOLORED, ALL_ABSENT}

ColorInit ==
  /\ \E case \in TestCases :
       /\ solution = case.solution
       /\ grid = case.grid
  /\ seed = 0
  /\ swaps = MaxEdits
  /\ status = "PLAYING"
  /\ saved = Null
  /\ dragging = Null
  /\ timers = << >>
  /\ DailyIdle

\* The cells of the first row word and of the middle column word
EditCells ==
  {RowCells(0)[k] : k \in 1 .. GRID_SIZE} \cup {ColCells(2)[k] : k \in 1 .. GRID_SIZE}

\* performSwap's exchange of two letters, statuses left stale
Exchange ==
  /\ swaps > 0
  /\ \E from \in EditCells : \E to \in EditCells :
       /\ from # to
       /\ grid' = SwapChars(grid, from, to)
  /\ swaps' = swaps - 1
  /\ UNCHANGED <<seed, solution, status, saved, dragging, timers>>
  /\ UNCHANGED daily

\* The call of updateColors on the grid as it stands
Recolor ==
  /\ \E coloredGrid \in {updateColors(grid, solution)} : grid' = coloredGrid
  /\ UNCHANGED <<seed, solution, swaps, status, saved, dragging, timers>>
  /\ UNCHANGED daily

ColorNext == Exchange \/ Recolor

ColorSpec == ColorInit /\ [][ColorNext]_vars

---------------------------------------------------------------------------
(* Properties of the scramble.                                             *)

\* The grid is the one generateInitialState returned: no swap accepted yet
InitialGrid == grid # Null /\ swaps = TOTAL_SWAPS

\* The valid cells whose letter is the solution's letter
Matching(g, sol) == {p \in ValidSet : g[p.row][p.col].char = sol[p.row][p.col]}

\* The number of valid cells of matrix m (of letters) holding ch
CountIn(m, ch) == Cardinality({p \in ValidSet : m[p.row][p.col] = ch})

Letters(g) == [r \in Idx |-> [c \in Idx |-> g[r][c].char]]

LettersUsed(m) == {m[p.row][p.col] : p \in ValidSet}

\* C1: in the grid returned by generateInitialState every valid cell that
\* was not selected as a green position holds a letter different from the
\* solution's letter there (a single non-green cell is exempt).
C1_NonGreenDeranged ==
  InitialGrid =>
    LET nonGreen == ValidSet \ greenPositions(seed)
    IN  \/ Cardinality(nonGreen) = 1
        \/ \A p \in nonGreen : grid[p.row][p.col].char # solution[p.row][p.col]

\* C2: the multiset of letters of the 21 valid cells equals that of the
\* solution, in the initial grid and after every accepted swap.
C2_LettersConserved ==
  grid # Null =>
    \A ch \in LettersUsed(Letters(grid)) \cup LettersUsed(solution) :
       CountIn(Letters(grid), ch) = CountIn(solution, ch)

\* Swaps were accepted until none was left, and the letters are not in place
C2_Witness ==
  /\ grid # Null
  /\ status = "LOST"
  /\ swaps = 0
  /\ Letters(grid) # Letters(generateInitialState(solution, seed))
  /\ \E p \in ValidSet : grid[p.row][p.col].char # solution[p.row][p.col]

\* C3: the initial grid has between 4 and 7 cells matching the solution.
C3_FourToSevenGreens ==
  InitialGrid =>
    /\ Cardinality(Matching(grid, solution)) >= 4
    /\ Cardinality(Matching(grid, solution)) <= 7

\* C4: the number of matching cells of the initial grid lies in the range
\* of the green-count draw, and the initial grid is not solved.
C4_GreensInRangeNotSolved ==
  InitialGrid =>
    /\ Cardinality(Matching(grid, solution)) >= MIN_GREENS
    /\ Cardinality(Matching(grid, solution)) <= MAX_GREENS
    /\ ~checkWin(grid)

---------------------------------------------------------------------------
(* Properties of the recolouring.                                          *)

\* The grid updateColors returns for the grid of the state
Recolored == updateColors(grid, solution)

\* The state's grid is a result of updateColors
IsRecolored == grid = Recolored

EvenLines == {k \in Idx : k % 2 = 0}

\* The columns of row r of g holding X
RowHolders(g, r, X) == {c \in Idx : g[r][c].char = X}

\* Row r of the solution has one X, row r of g has two, both misplaced
TwoForOne(g, sol, r, X) ==
  /\ Cardinality({c \in Idx : sol[r][c] = X}) = 1
  /\ Cardinality(RowHolders(g, r, X)) = 2
  /\ \A c \in RowHolders(g, r, X) : sol[r][c] # X

FirstHolder(g, r, X) ==
  CHOOSE c \in RowHolders(g, r, X) : \A d \in RowHolders(g, r, X) : c <= d

SecondHolder(g, r, X) ==
  CHOOSE c \in RowHolders(g, r, X) : \A d \in RowHolders(g, r, X) : d <= c

\* The positions of row r (column c) that lack their X
RowNeed(g, sol, r, X) ==
  Cardinality({c \in Idx : sol[r][c] = X /\ g[r][c].char # X})

ColNeed(g, sol, c, X) ==
  Cardinality({r \in Idx : sol[r][c] = X /\ g[r][c].char # X})

\* The misplaced X's scanned before the cell (r, c) in its row (column)
RowClaimedBefore(g, sol, r, c, X) ==
  Cardinality({d \in Idx : d < c /\ g[r][d].char = X /\ sol[r][d] # X})

ColClaimedBefore(g, sol, r, c, X) ==
  Cardinality({q \in Idx : q < r /\ g[q][c].char = X /\ sol[q][c] # X})

\* Column c is a word that lacks more X's than were scanned above row r
ColumnStillNeeds(g, sol, r, c, X) ==
  /\ c % 2 = 0
  /\ ColNeed(g, sol, c, X) > ColClaimedBefore(g, sol, r, c, X)

\* C5 as stated: where a solution row has one X and the grid's row two
\* misplaced X's, updateColors marks the first PRESENT and the second WRONG.
C5_FirstPresentSecondWrong ==
  \A r \in EvenLines : \A X \in LettersUsed(solution) :
     TwoForOne(grid, solution, r, X) =>
       /\ Recolored[r][FirstHolder(grid, r, X)].status = PRESENT
       /\ Recolored[r][SecondHolder(grid, r, X)].status = WRONG

\* C5 as amended: the first is PRESENT; the second is PRESENT when its
\* column is a word that still has an unclaimed need for X, WRONG otherwise.
C5_SecondWrongUnlessColumn ==
  \A r \in EvenLines : \A X \in LettersUsed(solution) :
     TwoForOne(grid, solution, r, X) =>
       /\ Recolored[r][FirstHolder(grid, r, X)].status = PRESENT
       /\ Recolored[r][SecondHolder(grid, r, X)].status =
            IF ColumnStillNeeds(grid, solution, r, SecondHolder(grid, r, X), X)
            THEN PRESENT ELSE WRONG

\* A recoloured grid with such a row, the second X on a column word that
\* does not need it and marked WRONG
C5_Witness ==
  /\ IsRecolored
  /\ \E r \in EvenLines : \E X \in LettersUsed(solution) :
       /\ TwoForOne(grid, solution, r, X)
       /\ SecondHolder(grid, r, X) % 2 = 0
       /\ grid[r][FirstHolder(grid, r, X)].status = PRESENT
       /\ grid[r][SecondHolder(grid, r, X)].status = WRONG

\* The intersection cells holding a misplaced letter that their column
\* still needs
ColumnOwed(g, sol) ==
  {p \in ValidSet :
     /\ p.row % 2 = 0
     /\ g[p.row][p.col].char # sol[p.row][p.col]
     /\ ColumnStillNeeds(g, sol, p.row, p.col, g[p.row][p.col].char)}

\* C6: updateColors marks PRESENT every misplaced letter of an intersection
\* cell whose column still has an unclaimed need for it, also when the
\* row's need for the letter was claimed by earlier cells of the row.
C6_IntersectionPresentByColumn ==
  \A p \in ColumnOwed(grid, solution) : Recolored[p.row][p.col].status = PRESENT

\* A recoloured grid where such a cell is PRESENT although earlier cells of
\* its row claimed all the row lacks of the letter
C6_Witness ==
  /\ IsRecolored
  /\ \E p \in ColumnOwed(grid, solution) :
       LET X == grid[p.row][p.col].char
       IN  /\ RowNeed(grid, solution, p.row, X) >= 1
           /\ RowClaimedBefore(grid, solution, p.row, p.col, X)
                >= RowNeed(grid, solution, p.row, X)
           /\ grid[p.row][p.col].status = PRESENT

\* C7: updateColors gives a valid cell CORRECT exactly when its letter is
\* the solution's letter there, whatever status the cell had.
C7_CorrectIffLetterMatches ==
  \A p \in ValidSet :
     (Recolored[p.row][p.col].status = CORRECT)
       <=> (grid[p.row][p.col].char = solution[p.row][p.col])

\* A cell that was CORRECT received another letter and is recoloured
C7_Witness ==
  \E p \in ValidSet :
     /\ grid[p.row][p.col].status = CORRECT
     /\ grid[p.row][p.col].char # solution[p.row][p.col]
     /\ Recolored[p.row][p.col].status # CORRECT

\* C9: recolouring a recoloured grid changes no letter and no status.
C9_RecolorIdempotent ==
  \A once \in {Recolored} : updateColors(once, solution) = once

\* A grid with stale statuses whose recolouring has PRESENT cells
C9_Witness ==
  /\ Recolored # grid
  /\ \E p \in ValidSet :
       /\ grid[p.row][p.col].status = CORRECT
       /\ Recolored[p.row][p.col].status = PRESENT

---------------------------------------------------------------------------
(* Properties of the session.                                              *)

Solved(g, sol) == \A p \in ValidSet : g[p.row][p.col].char = sol[p.row][p.col]

\* What a gap cell may hold
GapCells ==
  {[char |-> ch, status |-> st] :
     ch \in {"", " ", "A"}, st \in {NONE, WRONG, PRESENT, CORRECT}}

\* C8: checkWin is true exactly when the 21 valid cells are all CORRECT,
\* and no letter or status of a gap cell changes its result.
C8_WinIffAllValidCorrect ==
  grid # Null =>
    /\ checkWin(grid) <=>
         Cardinality({p \in ValidSet : grid[p.row][p.col].status = CORRECT}) = 21
    /\ \A p \in GapSet : \A cell \in GapCells :
         checkWin([grid EXCEPT ![p.row][p.col] = cell]) = checkWin(grid)

\* A swap solved the grid and checkWin reported it
C8_Witness ==
  /\ grid # Null
  /\ status = "WON"
  /\ swaps < TOTAL_SWAPS
  /\ \A p \in ValidSet : grid[p.row][p.col].status = CORRECT

\* A timer runs a performSwap whose guards pass on the state it closed over
AcceptedSwapStep ==
  /\ timers # << >>
  /\ timers' = Tail(timers)
  /\ SwapAccepted(Head(timers), Head(timers).from, Head(timers).to)

C10_Witness == status = "WON" /\ swaps = 0 /\ grid # Null /\ checkWin(grid)

\* C11: WON and LOST are terminal.  Once the status is WON or LOST no step,
\* the callback of a swap scheduled before the status changed included,
\* changes the grid, the swaps left, the status or the stored record.
C11_TerminalUnchanged ==
  [][(status = "WON" \/ status = "LOST") =>
       (grid' = grid /\ swaps' = swaps /\ status' = status /\ saved' = saved)
    ]_vars

\* The session as performSwap sees it in the current render
CurrentSession == [grid |-> grid, swaps |-> swaps, status |-> status]

\* C12: every initial grid is solvable within the budget.  From the grid
\* returned by generateInitialState some sequence of at most TOTAL_SWAPS
\* accepted swaps ends with status WON: the sequence that puts the right
\* letter on the first tile out of place, swap after swap, is one.
C12_SolvableWithinBudget ==
  InitialGrid =>
    \E won \in {SolvingPlay(CurrentSession, TOTAL_SWAPS)} :
       /\ won.status = "WON"
       /\ won.swaps >= 0
       /\ Solved(won.grid, solution)

\* A grid that takes that sequence fourteen swaps, one for each tile out of
\* place but the last
C12_Witness ==
  /\ InitialGrid
  /\ Len(Movable(grid)) = TOTAL_SWAPS
  /\ \E won \in {SolvingPlay(CurrentSession, TOTAL_SWAPS)} :
        won.status = "WON" /\ won.swaps = 1

---------------------------------------------------------------------------
(* The puzzle of the day                                                   *)

\* What generatePuzzle returned in initGame, for the list and seed at hand
Generated == generatePuzzle(words, seed)

RowWord(m, r) == <<m[r][0], m[r][1], m[r][2], m[r][3], m[r][4]>>
ColWord(m, c) == <<m[0][c], m[1][c], m[2][c], m[3][c], m[4][c]>>
WordsOf(m) ==
  << RowWord(m, 0), RowWord(m, 2), RowWord(m, 4),
     ColWord(m, 0), ColWord(m, 2), ColWord(m, 4) >>
InList(w, list) == \E k \in 1 .. Len(list) : list[k] = w
GapCoords == {<<r, c>> \in Idx \X Idx : ~isValidCell(r, c)}

ValidWaffle(m, list) ==
  /\ DOMAIN m = Idx
  /\ \A r \in Idx : DOMAIN m[r] = Idx
  /\ \A k \in 1 .. 6 : InList(WordsOf(m)[k], list)
  /\ \A k, l \in 1 .. 6 : k # l => WordsOf(m)[k] # WordsOf(m)[l]
  /\ \A p \in GapCoords : m[p[1]][p[2]] = " "

\* C13: every solution returned by generatePuzzle is a valid waffle: rows
\* 0, 2, 4 and columns 0, 2, 4 spell six pairwise distinct words of the
\* word list (each intersection cell is read by its row and by its column),
\* and the four gap cells hold the blank placeholder
C13_ValidWaffle ==
  (puzzle # Null /\ Generated.kind = "puzzle") =>
     /\ ValidWaffle(Generated.solution, words)
     /\ puzzle.solution = Generated.solution

\* A word list gave a waffle other than the fallback one
C13_Witness ==
  /\ puzzle # Null
  /\ Generated.kind = "puzzle"
  /\ puzzle.solution # FALLBACK_SOLUTION
  /\ ValidWaffle(puzzle.solution, words)

IsFiveByFive(m) ==
  /\ DOMAIN m = Idx
  /\ \A r \in Idx : DOMAIN m[r] = Idx

\* C14: getDailyPuzzle always returns a puzzle: once initGame has run the
\* puzzle is defined, its id is the daily seed and its solution is 5x5, and
\* when generatePuzzle returned null or threw the solution is the fixed
\* fallback solution
C14_AlwaysAPuzzle ==
  (grid # Null) =>
     /\ puzzle # Null
     /\ puzzle.id = seed
     /\ IsFiveByFive(puzzle.solution)
     /\ (Generated.kind \in {"null", "throws"} =>
           puzzle.solution = FALLBACK_SOLUTION)
     /\ solution = puzzle.solution

\* The search found no combination and the game started on the fallback
C14_Witness ==
  /\ grid # Null
  /\ words # Null
  /\ Generated.kind = "null"
  /\ puzzle = [id |-> seed, solution |-> FALLBACK_SOLUTION]

\* The word list could not be read and the game started on the fallback
C14_WitnessThrows ==
  /\ grid # Null
  /\ words = Null
  /\ Generated.kind = "throws"
  /\ puzzle = [id |-> seed, solution |-> FALLBACK_SOLUTION]

---------------------------------------------------------------------------
(* The day of the puzzle                                                   *)

MaxAhead == 26        \* hours looked ahead for the next change of date

Today == getAmsterdamDateParts(now)

\* q is the calendar day after p
DayAfter(p, q) ==
  \/ q.year = p.year /\ q.month = p.month /\ q.day = p.day + 1
  \/ /\ p.day = MonthLengths[p.month]
     /\ q.day = 1
     /\ \/ q.year = p.year /\ q.month = p.month + 1
        \/ p.month = 12 /\ q.month = 1 /\ q.year = p.year + 1

\* p is the launch date or an earlier date
UpToLaunch(p) ==
  \/ p.year < LAUNCH_YEAR
  \/ p.year = LAUNCH_YEAR /\ p.month < LAUNCH_MONTH
  \/ p.year = LAUNCH_YEAR /\ p.month = LAUNCH_MONTH /\ p.day <= LAUNCH_DAY

\* p is the launch date or a later date
FromLaunch(p) ==
  ~UpToLaunch(p) \/ (p.year = LAUNCH_YEAR /\ p.month = LAUNCH_MONTH /\ p.day = LAUNCH_DAY)

\* C16: getDailySeed returns a puzzle number that is at least 1, is 1 on
\* the launch date and on any earlier date, and from the launch date on is
\* greater by exactly 1 on the next calendar day of Europe/Amsterdam, also
\* across a change of the UTC offset
C16_DailySeed ==
  (seed # NotRead) =>
     /\ seed \in Nat
     /\ seed >= 1
     /\ UpToLaunch(Today) => seed = 1
     /\ FromLaunch(Today) =>
          \A later \in (now + 1) .. (now + 2 * HOURS_PER_DAY) :
             DayAfter(Today, getAmsterdamDateParts(later)) =>
                getDailySeed(later) = seed + 1

\* The puzzle number was read on the short day on which summer time begins
C16_Witness ==
  /\ seed = 72
  /\ Today = [year |-> 2026, month |-> 3, day |-> 29]
  /\ AmsterdamOffset(now) = 1
  /\ AmsterdamOffset(now + HOURS_PER_DAY) = 2
  /\ getDailySeed(now + HOURS_PER_DAY) = 73

\* The first instant after now on which Europe/Amsterdam shows another date
DateChanges ==
  {u \in (now + 1) .. (now + MaxAhead) : getAmsterdamDateParts(u) # Today}
NextDateChange == CHOOSE u \in DateChanges : \A w \in DateChanges : u <= w

\* getDailySeed changes at the instant m and not between now and m
SeedChangesFirstAt(m) ==
  /\ getDailySeed(m) # getDailySeed(now)
  /\ \A v \in (now + 1) .. (m - 1) : getDailySeed(v) = getDailySeed(now)

\* C17, as stated: getNextMidnight returns the first instant after now at
\* which the date of Europe/Amsterdam, and with it getDailySeed, changes
C17_NextMidnightAsStated ==
  (midnight # NotRead) =>
     /\ midnight = NextDateChange
     /\ SeedChangesFirstAt(midnight)

\* C17: getNextMidnight returns exactly the next local midnight of
\* Europe/Amsterdam, the first instant after now at which its calendar date
\* changes, also on the days the UTC offset changes; from the launch date
\* on that is the first instant at which getDailySeed changes
C17_NextMidnight ==
  (midnight # NotRead) =>
     /\ midnight = NextDateChange
     /\ FromLaunch(Today) => SeedChangesFirstAt(midnight)

\* Read on the day summer time begins: the next midnight is 23 hours after
\* the last one
C17_Witness ==
  /\ midnight # NotRead
  /\ Today = [year |-> 2026, month |-> 3, day |-> 29]
  /\ AmsterdamOffset(now) = 1
  /\ AmsterdamOffset(midnight) = 2
  /\ midnight = NextDateChange
  /\ midnight - now = 23

---------------------------------------------------------------------------
(* Rejected swaps and the gap cells                                        *)

\* The request of the oldest timer is invalid for the game as it stands
InvalidRequest ==
  /\ timers # << >>
  /\ grid # Null
  /\ \/ status # "PLAYING"
     \/ grid[Head(timers).from.row][Head(timers).from.col].status = CORRECT
     \/ grid[Head(timers).to.row][Head(timers).to.col].status = CORRECT
     \/ Head(timers).from = Head(timers).to

\* The request is invalid for the state the callback was created with
InvalidAsSeen ==
  /\ timers # << >>
  /\ ~SwapAccepted(Head(timers), Head(timers).from, Head(timers).to)

\* C19: an invalid swap request is rejected without any effect: when the
\* status is not PLAYING, or either cell is CORRECT, or source and target
\* are the same cell, performSwap leaves grid, swaps, status and the stored
\* state unchanged
C19_InvalidSwapNoEffect ==
  [][(InvalidRequest /\ timers' = Tail(timers)) =>
       (grid' = grid /\ swaps' = swaps /\ status' = status /\ saved' = saved)]_vars

\* The same for the grid and status performSwap reads in its closure
RejectedAsSeen ==
  [][(InvalidAsSeen /\ timers' = Tail(timers)) =>
       (grid' = grid /\ swaps' = swaps /\ status' = status /\ saved' = saved)]_vars

GapKept(g) ==
  \A p \in GapCoords : g[p[1]][p[2]] = [char |-> "", status |-> NONE]

\* C20: the four gap cells carry the empty character and status NONE in the
\* grid generateInitialState returns, and keep them through updateColors
\* and every accepted swap, in the grid shown and in the grid stored
C20_GapCellsKept ==
  (grid # Null) =>
     /\ GapKept(grid)
     /\ GapKept(updateColors(grid, solution))
     /\ (saved # Null => GapKept(saved.grid))

\* A swap was accepted and the gap cells are as they were
C20_Witness ==
  /\ grid # Null
  /\ swaps = 0
  /\ saved # Null
  /\ saved.swaps = 0
  /\ GapKept(grid)

---------------------------------------------------------------------------
(* The number of swaps a puzzle needs                                      *)

HELP_MOVES == 10      \* the number of moves the help text promises

\* The tiles of g that do not hold the letter of the solution; updateColors
\* marks exactly the others CORRECT
OutOfPlace(g, sol) == {p \in ValidSet : g[p.row][p.col].char # sol[p.row][p.col]}

\* Some sequence of at most n swaps of tiles that are not CORRECT solves g.
\* A shortest solution moves every tile once to its final place, so it can
\* be played by fetching, swap after swap, the letter the first tile out
\* of place needs from one of the tiles out of place that hold it: the
\* search tries each of them.
RECURSIVE SolvableWithin(_, _, _)
SolvableWithin(g, sol, n) ==
  \/ OutOfPlace(g, sol) = {}
  \/ /\ n > 0
     /\ \E p \in OutOfPlace(g, sol) :
          /\ \A u \in OutOfPlace(g, sol) : Rank(p) <= Rank(u)
          /\ \E q \in OutOfPlace(g, sol) \ {p} :
               /\ g[q.row][q.col].char = sol[p.row][p.col]
               /\ \E next \in {GridValue(SwapChars(g, p, q))} :
                    SolvableWithin(next, sol, n - 1)

\* C21: every puzzle can be solved in 10 moves: from every initial grid
\* some sequence of at most 10 swaps of tiles that are not CORRECT makes
\* all 21 valid cells CORRECT
C21_SolvableInTen ==
  InitialGrid => SolvableWithin(grid, solution, HELP_MOVES)

\* Every initial grid can be solved with one swap less than the budget
SolvableInFourteen ==
  InitialGrid => SolvableWithin(grid, solution, TOTAL_SWAPS - 1)

---------------------------------------------------------------------------
(* The PRESENT cells of a word                                             *)

\* The cells that belong to the row word r (column word c) only
RowOnly(r) == {Coord(r, 1), Coord(r, 3)}
ColOnly(c) == {Coord(1, c), Coord(3, c)}

\* The cells among cells that out marks PRESENT and that hold X
PresentWith(out, cells, X) ==
  Cardinality({p \in cells :
                 out[p.row][p.col].status = PRESENT /\ out[p.row][p.col].char = X})

LettersAtHand == LettersUsed(solution) \cup LettersUsed(Letters(grid))

\* C22: in the output of updateColors, for each of the six words and each
\* letter X, the PRESENT cells holding X among the cells that belong to
\* that word only are at most as many as the positions of the word whose
\* solution letter is X and whose letter is not X (none when every X of
\* the word is in place)
C22_PresentWithinNeed ==
  \A out \in {Recolored} : \A k \in EvenLines : \A X \in LettersAtHand :
     /\ PresentWith(out, RowOnly(k), X) <= RowNeed(grid, solution, k, X)
     /\ PresentWith(out, ColOnly(k), X) <= ColNeed(grid, solution, k, X)

\* A recoloured grid whose first row holds the same letter in both cells
\* of its own, with one position lacking it: one of the two is PRESENT
C22_Witness ==
  /\ IsRecolored
  /\ \E X \in LettersAtHand :
       /\ \A p \in RowOnly(0) : grid[p.row][p.col].char = X
       /\ RowNeed(grid, solution, 0, X) = 1
       /\ PresentWith(grid, RowOnly(0), X) = 1

---------------------------------------------------------------------------
(* What a PRESENT cell says                                                *)

\* Another position of the row word (column word) of p has X as solution
\* letter and holds a different letter
NeededInRow(g, sol, p, X) ==
  /\ p.row % 2 = 0
  /\ \E c \in Idx \ {p.col} : sol[p.row][c] = X /\ g[p.row][c].char # X

NeededInCol(g, sol, p, X) ==
  /\ p.col % 2 = 0
  /\ \E r \in Idx \ {p.row} : sol[r][p.col] = X /\ g[r][p.col].char # X

\* The cells updateColors marks PRESENT
PresentCells(out) ==
  {p \in ValidSet : out[p.row][p.col].status = PRESENT}

\* C23: in the output of updateColors every PRESENT cell is a valid cell
\* that is not CORRECT and whose letter is needed elsewhere in one of its
\* words: another position of its row word or of its column word has that
\* letter as solution letter and holds a different letter
C23_PresentIsNeeded ==
  \A out \in {Recolored} :
     /\ \A r \in Idx : \A c \in Idx :
          out[r][c].status = PRESENT => isValidCell(r, c)
     /\ \A p \in PresentCells(out) :
          /\ grid[p.row][p.col].char # solution[p.row][p.col]
          /\ \/ NeededInRow(grid, solution, p, grid[p.row][p.col].char)
             \/ NeededInCol(grid, solution, p, grid[p.row][p.col].char)

\* A recoloured grid with an intersection cell that is PRESENT for its
\* column word alone
C23_Witness ==
  /\ IsRecolored
  /\ \E p \in PresentCells(grid) :
       /\ ~NeededInRow(grid, solution, p, grid[p.row][p.col].char)
       /\ NeededInCol(grid, solution, p, grid[p.row][p.col].char)

---------------------------------------------------------------------------
(* The repair pass                                                         *)

\* The letters generateInitialState hands to generateDerangement
LettersToDerange == nonGreenLetters(solution, greenPositions(seed))

\* Every one of the rejection-sampling attempts fails for these letters
SamplingFails(letters) ==
  FirstSuccess(letters, letters, seed + 2, MAX_ATTEMPTS_DERANGE)
    = MAX_ATTEMPTS_DERANGE

\* a and b hold the same letters, each as often
SameLetters(a, b) ==
  /\ Len(a) = Len(b)
  /\ \A i \in 1 .. Len(a) :
       Cardinality({k \in 1 .. Len(a) : a[k] = a[i]})
         = Cardinality({k \in 1 .. Len(b) : b[k] = a[i]})

\* C24: when all rejection-sampling attempts fail, the repair pass of
\* generateDerangement still returns a permutation of the input letters
\* with no index i where result[i] equals originalPositions[i], for every
\* input of length at least 2
C24_RepairDeranges ==
  InitialGrid =>
    \A letters \in {LettersToDerange} :
       (Len(letters) >= 2 /\ SamplingFails(letters)) =>
          \A result \in {RepairPass(letters, letters, seed + 2)} :
             /\ SameLetters(result, letters)
             /\ IsDerangement(result, letters)

\* The repair pass returns a permutation of its input
RepairPermutes ==
  InitialGrid =>
    \A letters \in {LettersToDerange} :
       (Len(letters) >= 2 /\ SamplingFails(letters)) =>
          SameLetters(RepairPass(letters, letters, seed + 2), letters)

---------------------------------------------------------------------------
(* The order of the search                                                 *)

\* Words h2 and h3 of the list complete the attempt a to six distinct words
Completable(list, a) ==
  \E x \in 1 .. Len(list) : \E y \in 1 .. Len(list) :
     /\ list[x][1] = a.v1[3] /\ list[x][3] = a.v2[3] /\ list[x][5] = a.v3[3]
     /\ list[y][1] = a.v1[5] /\ list[y][3] = a.v2[5] /\ list[y][5] = a.v3[5]
     /\ list[x] \notin {a.h1, a.v1, a.v2, a.v3}
     /\ list[y] \notin {a.h1, a.v1, a.v2, a.v3, list[x]}

\* The attempts of the loops that can be completed
CompletableAttempts(list) == {a \in Attempts(list) : Completable(list, a)}

\* The earliest of them in the order of the loops
EarliestCompletable(list) ==
  CHOOSE a \in CompletableAttempts(list) :
    \A b \in CompletableAttempts(list) :
       AttemptOrder(a, Len(list)) <= AttemptOrder(b, Len(list))

\* The attempts the loops examine before the attempt a
ExaminedBefore(list, a) ==
  Cardinality({b \in Attempts(list) :
                 AttemptOrder(b, Len(list)) < AttemptOrder(a, Len(list))})

\* The result is built on the attempt a
BuiltOn(result, a) ==
  /\ result.kind = "puzzle"
  /\ RowWord(result.solution, 0) = a.h1
  /\ ColWord(result.solution, 0) = a.v1
  /\ ColWord(result.solution, 2) = a.v2
  /\ ColWord(result.solution, 4) = a.v3

\* C25: generatePuzzle returns the first successful combination in the
\* order of its loops over the shuffled list: when an (h1, v1, v2, v3)
\* examined before the cap can be completed by words h2 and h3 of the list
\* to six distinct words, the solution is built on the earliest such
\* combination, and when none can be completed the result is null
C25_EarliestCombination ==
  (puzzle # Null /\ words # Null) =>
     \A list \in {seededShuffle(words, seed)} : \A result \in {Generated} :
        IF CompletableAttempts(list) = {}
        THEN result.kind = "null"
        ELSE \A a \in {EarliestCompletable(list)} :
               ExaminedBefore(list, a) <= MAX_ATTEMPTS => BuiltOn(result, a)

\* The puzzle is built on a combination examined after others had failed,
\* its third row being the first of two words that fit the third and the
\* fifth row alike
C25_Witness ==
  /\ puzzle # Null
  /\ words = TWIN_LIST
  /\ \E a \in {EarliestCompletable(seededShuffle(words, seed))} :
       /\ ExaminedBefore(seededShuffle(words, seed), a) > 0
       /\ BuiltOn(Generated, a)
       /\ a.v1[3] = a.v1[5] /\ a.v2[3] = a.v2[5] /\ a.v3[3] = a.v3[5]

----------------------------------------------------------------------------
(* The cap of the search                                                   *)

\* The loops have ended
SearchEnded == search # Null /\ search.result # "running"

\* C26: generatePuzzle ends, the combinations <<v1, v2, v3>> it examines
\* are never more than MAX_ATTEMPTS, and it returns null when the cap is
\* reached without a waffle
C26_ExaminedWithinCap ==
  search # Null =>
    /\ search.examined <= MAX_ATTEMPTS
    /\ (search.attempts >= MAX_ATTEMPTS /\ search.solution = Null
          /\ search.result # "running") => search.result = "null"

\* What the loops do: one combination more than MAX_ATTEMPTS is examined
\* before the counter stops them
ExaminedWithinCapAndOne ==
  search # Null =>
    /\ search.examined <= MAX_ATTEMPTS + 1
    /\ search.attempts <= MAX_ATTEMPTS + 1
    /\ search.attempts > MAX_ATTEMPTS => search.result = "null"

\* The loops give what generatePuzzle gives
SearchAgrees ==
  (SearchEnded /\ Len(words) <= Len(WORD_POOL)) =>
     \A result \in {generatePuzzle(words, seed)} :
        /\ result.kind = search.result
        /\ result.kind = "puzzle" => result.solution = search.solution

\* The search always ends: generatePuzzle runs on once it is called
SearchTerminates == WF_vars(SearchNext) => <>SearchEnded

----------------------------------------------------------------------------
(* Swaps whose timers overlap                                              *)

\* C27: no executed swap is lost.  Whatever the order of the drops and of
\* the callbacks of their timers, a performSwap that executes its swap
\* leaves the grid of the session with that swap applied, recoloured, and
\* one swap less than the session had, never fewer than none: the grid is
\* the initial grid with every executed swap applied in the order of
\* execution and the swaps left are TOTAL_SWAPS less the executed swaps.
C27_NoSwapLost ==
  [][AcceptedSwapStep =>
       \E request \in {Head(timers)} :
          /\ grid' = updateColors(SwapChars(grid, request.from, request.to),
                                  solution)
          /\ swaps' = swaps - 1
          /\ swaps' >= 0
    ]_vars

\* The same of a callback that runs on the state of the current render
NoSwapLostInOrder ==
  [][(AcceptedSwapStep /\ Head(timers).grid = grid
        /\ Head(timers).swaps = swaps /\ Head(timers).status = status) =>
       \E request \in {Head(timers)} :
          /\ grid' = updateColors(SwapChars(grid, request.from, request.to),
                                  solution)
          /\ swaps' = swaps - 1
          /\ swaps' >= 0
    ]_vars

----------------------------------------------------------------------------
(* Green cells during play                                                 *)

CorrectCells(g) == {p \in ValidSet : g[p.row][p.col].status = CORRECT}

\* C30: green cells are permanent during play.  While the status is
\* PLAYING no step, an accepted swap included, changes the letter or the
\* status of a valid cell that is CORRECT: the set of CORRECT cells never
\* shrinks.
C30_GreenStays ==
  [][(grid # Null /\ status = "PLAYING") =>
       /\ \A p \in CorrectCells(grid) : grid'[p.row][p.col] = grid[p.row][p.col]
       /\ CorrectCells(grid) \subseteq CorrectCells(grid')
    ]_vars

\* The same of a callback that runs on the state of the current render
GreenStaysInOrder ==
  [][(AcceptedSwapStep /\ Head(timers).grid = grid /\ status = "PLAYING") =>
       /\ \A p \in CorrectCells(grid) : grid'[p.row][p.col] = grid[p.row][p.col]
       /\ CorrectCells(grid) \subseteq CorrectCells(grid')
    ]_vars

----------------------------------------------------------------------------
(* The stored state over midnight                                          *)

\* The letters of the valid cells of g are those of the solution sol
DerivedFrom(g, sol) ==
  \A X \in LettersUsed(sol) \cup LettersUsed(Letters(g)) :
     Cardinality({p \in ValidSet : g[p.row][p.col].char = X})
       = Cardinality({p \in ValidSet : sol[p.row][p.col] = X})

\* C28: a game state stored under puzzle id p holds the solution generated
\* for puzzle number p and a grid of the letters of that solution, also
\* when the date changes while the session of the day before is played.
C28_StoredUnderItsPuzzle ==
  saved # Null =>
    \A daily_p \in {getDailyPuzzle(words, saved.puzzleId)} :
       /\ saved.solution = daily_p.solution
       /\ DerivedFrom(saved.grid, daily_p.solution)

\* What is stored is the session that is played
StoredIsSession ==
  saved # Null =>
    /\ saved.solution = solution
    /\ solution = puzzle.solution
    /\ DerivedFrom(saved.grid, solution)

\* The same as C28 for the states stored on the day the session began
StoredOnItsDay ==
  (saved # Null /\ saved.puzzleId = puzzle.id) =>
    \A daily_p \in {getDailyPuzzle(words, saved.puzzleId)} :
       /\ saved.solution = daily_p.solution
       /\ DerivedFrom(saved.grid, daily_p.solution)

----------------------------------------------------------------------------
(* A result is counted once                                                *)

Counted(stats) ==
  stats.distribution["failed"]
    + stats.distribution["stars0"] + stats.distribution["stars1"]
    + stats.distribution["stars2"] + stats.distribution["stars3"]
    + stats.distribution["stars4"] + stats.distribution["stars5"]

WonRecords(records) == {r \in records : r.stars >= 0}

\* C29: a puzzle's result is counted at most once.  Whatever the order of
\* the steps of the calls of recordGameResult, two calls for one puzzle
\* number included, the stored stats count no more games, no more results
\* in the distribution and no longer a streak than there are puzzle
\* numbers with a record.
C29_CountedOnce ==
  db # Null =>
    /\ db.stats.played <= Cardinality(db.records)
    /\ Counted(db.stats) <= Cardinality(db.records)
    /\ db.stats.currentStreak <= Cardinality(WonRecords(db.records))
    /\ db.stats.bestStreak <= Cardinality(WonRecords(db.records))

\* No call is between its getGameRecord and its put while another call
\* does a step of its own
OneAtATime ==
  Cardinality({n \in 1 .. Len(calls) : calls[n].pc \in {"getStats", "put"}}) <= 1

\* The same when the calls do not overlap
CountedOnceInTurn ==
  [](OneAtATime) => [](C29_CountedOnce)

=============================================================================
